---- MODULE Spec2Model ----
(***************************************************************************)
(* Model of the image-templating crate: pixels and the Over operator,      *)
(* Rect containment, the Layer/Filter pull pipeline, the MatrixTransform   *)
(* builder and Canvas compositing.                                         *)
(*                                                                         *)
(* f32 values are modelled bit-exactly as sign/mantissa/exponent records   *)
(* with IEEE-754 round-to-nearest-even on a 24 bit significand; every      *)
(* intermediate stays below 2^31.  Exponent range (overflow to infinity,   *)
(* subnormals) and the sign of zero are not modelled: the inputs drawn     *)
(* below never reach them.  The channel type is u8.  usize and isize are   *)
(* modelled with UsizeBits bits.                                           *)
(***************************************************************************)
EXTENDS Integers, Sequences, FiniteSets, TLC

(***************************************************************************)
(* Record fields                                                           *)
(*                                                                         *)
(* TLC keeps the fields of a record sorted by the first occurrence of      *)
(* their names in the module.  The names are listed here in the order in   *)
(* which the record constructors below write them, so that a record is     *)
(* sorted as it is built and sorting it again never moves a field.         *)
(***************************************************************************)
RecordFields ==
    [none |-> TRUE, panic |-> TRUE, s |-> TRUE, m |-> TRUE, e |-> TRUE,
     r |-> TRUE, g |-> TRUE, b |-> TRUE, a |-> TRUE, some |-> TRUE,
     items |-> TRUE, start |-> TRUE, end |-> TRUE, rad |-> TRUE,
     cos |-> TRUE, sin |-> TRUE, nan |-> TRUE, capacity |-> TRUE,
     channel |-> TRUE, ok |-> TRUE, err |-> TRUE, original_vec |-> TRUE,
     kind |-> TRUE, f |-> TRUE, im |-> TRUE, fill |-> TRUE, rect |-> TRUE,
     vec |-> TRUE, pixel |-> TRUE, mode |-> TRUE, v |-> TRUE,
     direction |-> TRUE, align |-> TRUE, line_spacing |-> TRUE,
     glyph_spacing |-> TRUE, use_kern |-> TRUE, layout |-> TRUE,
     text |-> TRUE, font |-> TRUE, lines |-> TRUE,
     current_row_text |-> TRUE, self |-> TRUE, found |-> TRUE,
     item |-> TRUE, prev_data |-> TRUE, row |-> TRUE, char |-> TRUE,
     origin |-> TRUE, glyph |-> TRUE, placements |-> TRUE, min_x |-> TRUE,
     min_y |-> TRUE, max_x |-> TRUE, max_y |-> TRUE, layers |-> TRUE,
     op |-> TRUE, x |-> TRUE, y |-> TRUE, filters |-> TRUE,
     pixels |-> TRUE, multiplier |-> TRUE, matrix |-> TRUE,
     center_x |-> TRUE, center_y |-> TRUE, settings |-> TRUE, ret |-> TRUE,
     rasterized |-> TRUE, background |-> TRUE, angle |-> TRUE,
     factor |-> TRUE, scale_x |-> TRUE, scale_y |-> TRUE, method |-> TRUE,
     before |-> TRUE, again |-> TRUE, out |-> TRUE, u8 |-> TRUE,
     u16 |-> TRUE, f32 |-> TRUE, target |-> TRUE, xmin |-> TRUE,
     ymin |-> TRUE, width |-> TRUE, height |-> TRUE,
     advance_width |-> TRUE, ascent |-> TRUE, descent |-> TRUE,
     new_line_size |-> TRUE, metrics |-> TRUE, kern |-> TRUE,
     horizontal_line_metrics |-> TRUE, vertical_line_metrics |-> TRUE,
     left |-> TRUE]

(***************************************************************************)
(* Bounds                                                                  *)
(***************************************************************************)
UsizeBits == 5
MaxLayers == 2
MaxFilters == 2
MaxOps == 3
MaxDim == 2
MaxChannels == 8
MaxText == 3

(***************************************************************************)
(* Machine integers                                                        *)
(***************************************************************************)
USIZE_MAX == 2^UsizeBits - 1
ISIZE_MAX == 2^(UsizeBits - 1) - 1
ISIZE_MIN == 0 - 2^(UsizeBits - 1)
I32_MAX == 2147483647
I32_MIN == (0 - 2147483647) - 1
USize == 0..USIZE_MAX
ISize == ISIZE_MIN..ISIZE_MAX

\* Option::None, and the outcome of a panicking call
None == [none |-> TRUE]
Panic == [panic |-> TRUE]

(***************************************************************************)
(* f32 arithmetic                                                          *)
(***************************************************************************)
F32Zero == [s |-> 0, m |-> 0, e |-> 0]

RECURSIVE BitLen(_)
BitLen(n) == IF n = 0 THEN 0 ELSE 1 + BitLen(n \div 2)

\* round (-1)^s * (m + sticky fraction) * 2^e to a 24 bit significand,
\* ties to even
F32Round(s, m, e, st) ==
    IF m = 0 THEN F32Zero
    ELSE LET k == BitLen(m) - 24 IN
         IF k <= 0 THEN [s |-> s, m |-> m * 2^(0 - k), e |-> e + k]
         ELSE LET q == m \div 2^k
                  r == m % 2^k
                  half == 2^(k - 1)
                  up == r > half \/ (r = half /\ (st \/ q % 2 = 1))
                  q2 == IF up THEN q + 1 ELSE q
              IN IF q2 = 16777216
                 THEN [s |-> s, m |-> 8388608, e |-> e + k + 1]
                 ELSE [s |-> s, m |-> q2, e |-> e + k]

\* `n as f32` / `n.into()` for an integer n
F32FromInt(n) == F32Round(IF n < 0 THEN 1 ELSE 0, IF n < 0 THEN 0 - n ELSE n, 0, FALSE)

F32Neg(a) == IF a.m = 0 THEN a ELSE [a EXCEPT !.s = 1 - a.s]

F32IsZero(a) == a.m = 0

\* |a| < |b|
F32MagLess(a, b) ==
    IF b.m = 0 THEN FALSE
    ELSE IF a.m = 0 THEN TRUE
    ELSE a.e < b.e \/ (a.e = b.e /\ a.m < b.m)

\* a < b
F32Less(a, b) ==
    IF a.s = 1 /\ b.s = 0 THEN TRUE
    ELSE IF a.s = 0 /\ b.s = 1 THEN FALSE
    ELSE IF a.s = 0 THEN F32MagLess(a, b)
    ELSE F32MagLess(b, a)

F32Mul(a, b) ==
    IF a.m = 0 \/ b.m = 0 THEN F32Zero
    ELSE LET ah == a.m \div 4096
             al == a.m % 4096
             bh == b.m \div 4096
             bl == b.m % 4096
             mid == ah * bl + al * bh
             losum == (mid % 4096) * 4096 + al * bl
             lo == losum % 16777216
             hi == ah * bh + mid \div 4096 + losum \div 16777216
         IN F32Round((a.s + b.s) % 2, hi * 64 + lo \div 262144,
                     a.e + b.e + 18, lo % 262144 # 0)

\* b is not zero
F32Div(a, b) ==
    IF a.m = 0 THEN F32Zero
    ELSE LET q0 == a.m \div b.m
             r0 == a.m % b.m
             q1 == (r0 * 128) \div b.m
             r1 == (r0 * 128) % b.m
             q2 == (r1 * 128) \div b.m
             r2 == (r1 * 128) % b.m
             q3 == (r2 * 128) \div b.m
             r3 == (r2 * 128) % b.m
             q4 == (r3 * 128) \div b.m
             r4 == (r3 * 128) % b.m
         IN F32Round((a.s + b.s) % 2,
                     (((q0 * 128 + q1) * 128 + q2) * 128 + q3) * 128 + q4,
                     a.e - b.e - 28, r4 # 0)

\* |x| >= |y|, both non-zero; sub says whether the magnitudes are subtracted
F32AddMag(x, y, sub) ==
    LET d == x.e - y.e
        xs == x.m * 64
        ys == IF d >= 30 THEN 0 ELSE (y.m * 64) \div 2^d
        st == IF d >= 30 THEN TRUE ELSE (y.m * 64) % 2^d # 0
    IN IF sub
       THEN F32Round(x.s, IF st THEN xs - ys - 1 ELSE xs - ys, x.e - 6, st)
       ELSE F32Round(x.s, xs + ys, x.e - 6, st)

F32Add(a, b) ==
    IF a.m = 0 THEN b
    ELSE IF b.m = 0 THEN a
    ELSE IF F32MagLess(a, b) THEN F32AddMag(b, a, a.s # b.s)
    ELSE F32AddMag(a, b, a.s # b.s)

F32Sub(a, b) == F32Add(a, F32Neg(b))

\* f32::min / f32::max
F32Min(a, b) == IF F32Less(b, a) THEN b ELSE a
F32Max(a, b) == IF F32Less(a, b) THEN b ELSE a

\* `x as i32`: truncation towards zero, saturating
F32AsI32(x) ==
    IF x.m = 0 THEN 0
    ELSE IF x.e >= 8 THEN (IF x.s = 1 THEN I32_MIN ELSE I32_MAX)
    ELSE LET mag == IF x.e >= 0 THEN x.m * 2^x.e
                    ELSE IF x.e <= 0 - 24 THEN 0
                    ELSE x.m \div 2^(0 - x.e)
         IN IF x.s = 1 THEN 0 - mag ELSE mag

F32One == F32FromInt(1)

(***************************************************************************)
(* Pixels (channel type u8)                                                *)
(***************************************************************************)
MAX_PIXEL_VALUE == 255

rgba(r, g, b, a) == [r |-> r, g |-> g, b |-> b, a |-> a]

DefaultPixel == rgba(0, 0, 0, 0)

IsPixel(p) == p # None /\ p # Panic

\* T::from_f32 for an integer channel: Some(x as T) when x lies strictly
\* between MIN - 1 and MAX + 1, else None (written NoChannel)
NoChannel == 0 - 1

from_f32_exclusive_max(x) ==
    LET t == F32AsI32(x)
    IN IF 0 <= t /\ t < MAX_PIXEL_VALUE THEN t ELSE NoChannel

from_f32(x) ==
    LET t == F32AsI32(x)
    IN IF 0 <= t /\ t <= MAX_PIXEL_VALUE THEN t ELSE NoChannel

\* AlphaPixel<T> -> AlphaPixel<f32>, each channel divided by the maximum
as_float_pixel(p) ==
    LET max == F32FromInt(MAX_PIXEL_VALUE)
    IN [r |-> F32Div(F32FromInt(p.r), max),
        g |-> F32Div(F32FromInt(p.g), max),
        b |-> F32Div(F32FromInt(p.b), max),
        a |-> F32Div(F32FromInt(p.a), max)]

(***************************************************************************)
(* Blending                                                                *)
(***************************************************************************)
second_alpha_no_complement(float_pixel1, float_pixel2) == float_pixel2.a

second_alpha(float_pixel1, float_pixel2) ==
    F32Mul(float_pixel2.a, F32Sub(F32One, float_pixel1.a))

over_operator(pixel1, pixel2) ==
    LET float_pixel1 == as_float_pixel(pixel1)
        float_pixel2 == as_float_pixel(pixel2)
        max == F32FromInt(MAX_PIXEL_VALUE)
        second_alpha_component == second_alpha(float_pixel1, float_pixel2)
        new_alpha == F32Add(float_pixel1.a, second_alpha_component)
        new_color(c1, c2) ==
            F32Div(F32Add(F32Mul(c1, float_pixel1.a),
                          F32Mul(c2, second_alpha_component)), new_alpha)
        r == from_f32(F32Mul(new_color(float_pixel1.r, float_pixel2.r), max))
        g == from_f32(F32Mul(new_color(float_pixel1.g, float_pixel2.g), max))
        b == from_f32(F32Mul(new_color(float_pixel1.b, float_pixel2.b), max))
        a == from_f32(F32Mul(new_alpha, max))
    IN IF F32IsZero(new_alpha) THEN DefaultPixel
       ELSE IF NoChannel \in {r, g, b, a} THEN Panic
       ELSE rgba(r, g, b, a)

\* the closures handed to BlendingMethod::Custom in this model
CustomFns == {"keep_first"}

custom_call(f, pixel1, pixel2) == pixel1

Methods == {[kind |-> "Replace"], [kind |-> "Over"]}
           \cup {[kind |-> "Custom", f |-> f] : f \in CustomFns}

Over == [kind |-> "Over"]
Replace == [kind |-> "Replace"]

blend_replace_as_over(method, pixel1, pixel2) ==
    CASE method.kind = "Replace" -> over_operator(pixel2, pixel1)
      [] method.kind = "Over" -> over_operator(pixel2, pixel1)
      [] method.kind = "Custom" -> custom_call(method.f, pixel1, pixel2)

blend_over_swapped(method, pixel1, pixel2) ==
    CASE method.kind = "Replace" -> pixel2
      [] method.kind = "Over" -> over_operator(pixel1, pixel2)
      [] method.kind = "Custom" -> custom_call(method.f, pixel1, pixel2)

\* pixel2 is the foreground
blend(method, pixel1, pixel2) ==
    CASE method.kind = "Replace" -> pixel2
      [] method.kind = "Over" -> over_operator(pixel2, pixel1)
      [] method.kind = "Custom" -> custom_call(method.f, pixel1, pixel2)

(***************************************************************************)
(* Rect                                                                    *)
(***************************************************************************)
Rect(x, y, width, height) == [x |-> x, y |-> y, width |-> width, height |-> height]

\* usize::checked_add: the sum, or NoSum on overflow
NoSum == 0 - 1

checked_add(a, b) == IF a + b > USIZE_MAX THEN NoSum ELSE a + b

contains_upper_inclusive(self, x, y) ==
    LET upper_x == checked_add(self.x, self.width)
        upper_y == checked_add(self.y, self.height)
    IN IF upper_x = NoSum THEN FALSE
       ELSE IF upper_y = NoSum THEN FALSE
       ELSE x >= self.x /\ x <= upper_x /\ y >= self.y /\ y <= upper_y

contains(self, x, y) ==
    LET upper_x == checked_add(self.x, self.width)
        upper_y == checked_add(self.y, self.height)
    IN IF upper_x = NoSum THEN FALSE
       ELSE IF upper_y = NoSum THEN FALSE
       ELSE x >= self.x /\ x < upper_x /\ y >= self.y /\ y < upper_y

(***************************************************************************)
(* Image                                                                   *)
(***************************************************************************)
Image(pixels, width, height) == [pixels |-> pixels, width |-> width, height |-> height]

Image_new == Image(<<>>, 0, 0)

IncorrectWidth == [err |-> "IncorrectWidth"]
ZeroWidth == [err |-> "ZeroWidth"]

from_pixels_no_remainder_check(pixels, width) ==
    IF width = 0
    THEN (IF pixels = <<>> THEN Image_new ELSE ZeroWidth)
    ELSE Image(pixels, width, Len(pixels) \div width)

from_pixels(pixels, width) ==
    IF width = 0
    THEN (IF pixels = <<>> THEN Image_new ELSE ZeroWidth)
    ELSE IF Len(pixels) % width # 0 THEN IncorrectWidth
    ELSE Image(pixels, width, Len(pixels) \div width)

\* pixels pushed row by row, column by column
\* (function is the closure, as a TLA+ function of <<x, y>>)
from_function(width, height, function) ==
    Image([i \in 1..(width * height) |->
               function[<<(i - 1) % width, (i - 1) \div width>>]],
          width, height)

image_contains(self, x, y) == x < self.width /\ y < self.height

index_of_unchecked(self, x, y) == self.width * y + x

\* Option<usize>::None of index_of
NoIndex == 0 - 1

index_of(self, x, y) ==
    IF image_contains(self, x, y) THEN index_of_unchecked(self, x, y) ELSE NoIndex

\* self.pixels.get(self.index_of(x, y)?).copied()
pixel_at(self, x, y) ==
    IF index_of(self, x, y) # NoIndex /\ index_of(self, x, y) < Len(self.pixels)
    THEN self.pixels[index_of(self, x, y) + 1]
    ELSE None

\* a * b on usize: the product, Overflow when it does not fit and the
\* build panics on overflow, the wrapped product when it does not
Overflow == 0 - 1

usize_mul(a, b, checks) ==
    IF a * b <= USIZE_MAX THEN a * b
    ELSE IF checks THEN Overflow ELSE (a * b) % (2 ^ UsizeBits)

usize_add(a, b, checks) ==
    IF a + b <= USIZE_MAX THEN a + b
    ELSE IF checks THEN Overflow ELSE (a + b) % (2 ^ UsizeBits)

usize_sub(a, b, checks) ==
    IF a >= b THEN a - b
    ELSE IF checks THEN Overflow ELSE a - b + 2 ^ UsizeBits

\* vec![fill; width*height]
new_with_fill_len(fill, width, height, len) ==
    IF len = Overflow THEN Panic
    ELSE Image([i \in 1..len |-> fill], width, height)

new_with_fill(fill, width, height, checks) ==
    new_with_fill_len(fill, width, height, usize_mul(width, height, checks))

\* Option<&[AlphaPixel<T>]>
Slice(items) == [some |-> TRUE, items |-> items]

NoSlice == [some |-> FALSE, items |-> <<>>]

\* self.pixels.get(range): the pixels of start..end (0-based, end exclusive)
get_range(pixels, start, end) ==
    IF start <= end /\ end <= Len(pixels)
    THEN Slice([i \in 1..(end - start) |-> pixels[start + i]])
    ELSE NoSlice

row(self, y) ==
    IF index_of(self, 0, y) = NoIndex THEN NoSlice
    ELSE get_range(self.pixels, index_of(self, 0, y),
                   index_of_unchecked(self, 0, y + 1))

\* the range of row_mut: both ends go through index_of
row_mut_range(self, y) ==
    IF index_of(self, 0, y) = NoIndex \/ index_of(self, 0, y + 1) = NoIndex
    THEN None
    ELSE IF index_of(self, 0, y + 1) <= Len(self.pixels)
    THEN [start |-> index_of(self, 0, y), end |-> index_of(self, 0, y + 1)]
    ELSE None

\* the index pixel_at_mut hands out a reference to
pixel_at_mut_index(self, x, y) ==
    IF index_of(self, x, y) # NoIndex /\ index_of(self, x, y) < Len(self.pixels)
    THEN index_of(self, x, y)
    ELSE NoIndex

\* a write through a &mut AlphaPixel at a 0-based index of the buffer
write_pixel(self, index, pixel) == [self EXCEPT !.pixels[index + 1] = pixel]

\* what a call on an image leaves behind: the image and what was returned
\* ("Some", "None") or that the call panicked
Outcome(image, ret) == [im |-> image, ret |-> ret]

\* (x + image.width).min(self.width) - x, and the same along y
subim_extent(x, extent, limit, checks) ==
    LET sum == usize_add(x, extent, checks)
    IN IF sum = Overflow THEN Overflow
       ELSE usize_sub(IF sum < limit THEN sum ELSE limit, x, checks)

\* self.pixels[slice].iter_mut().zip(src_row.iter())
\*     .for_each(|(dest, src)| *dest = blend.blend(*dest, *src))
blend_slice(self, start, src_row, n, method) ==
    [self EXCEPT !.pixels =
        [i \in 1..Len(self.pixels) |->
            IF i > start /\ i <= start + n
            THEN blend(method, self.pixels[i], src_row[i - start])
            ELSE self.pixels[i]]]

\* index_of_unchecked(x + subim_width, y + row)
slice_end(self, x, y, checks) ==
    IF index_of_unchecked(self, x, y) <= USIZE_MAX THEN index_of_unchecked(self, x, y)
    ELSE IF checks THEN Overflow
    ELSE index_of_unchecked(self, x, y) % (2 ^ UsizeBits)

\* whether one pass of the loop of draw_subimage panics: the overflow of the
\* end of the slice, image.row(row).unwrap(), [0..subim_width] and
\* self.pixels[slice]
row_panics(self, start, end, src_row, subim_width) ==
    \/ end = Overflow
    \/ ~src_row.some
    \/ subim_width > Len(src_row.items)
    \/ start > end
    \/ end > Len(self.pixels)

\* the loop of draw_subimage from row on
RECURSIVE draw_rows(_, _, _, _, _, _, _, _, _)
draw_rows(self, image, x, y, subim_width, subim_height, row_i, method, checks) ==
    IF row_i >= subim_height THEN Outcome(self, "Some")
    ELSE IF index_of(self, x, y + row_i) = NoIndex THEN Outcome(self, "None")
    ELSE IF row_panics(self, index_of(self, x, y + row_i),
                       slice_end(self, x + subim_width, y + row_i, checks),
                       row(image, row_i), subim_width)
    THEN Outcome(self, "Panic")
    ELSE draw_rows(blend_slice(self, index_of(self, x, y + row_i),
                               row(image, row_i).items, subim_width, method),
                   image, x, y, subim_width, subim_height, row_i + 1, method, checks)

draw_subimage_clipped(self, image, x, y, subim_width, subim_height, method, checks) ==
    IF subim_width = Overflow \/ subim_height = Overflow
    THEN Outcome(self, "Panic")
    ELSE draw_rows(self, image, x, y, subim_width, subim_height, 0, method, checks)

draw_subimage(self, image, x, y, method, checks) ==
    draw_subimage_clipped(self, image, x, y,
                          subim_extent(x, image.width, self.width, checks),
                          subim_extent(y, image.height, self.height, checks),
                          method, checks)

(***************************************************************************)
(* Filters                                                                 *)
(***************************************************************************)
Coord(x, y) == [x |-> x, y |-> y]

TranslateFilter(x, y) == [kind |-> "Translate", x |-> x, y |-> y]

BrightnessFilter(multiplier) == [kind |-> "Brightness", multiplier |-> multiplier]

\* `-v` on isize: overflows for isize::MIN, which panics when the build has
\* overflow checks and wraps to isize::MIN when it has not; NegOverflow is
\* the value that does not fit
NegOverflow == ISIZE_MAX + 1

isize_neg(v, checks) ==
    IF v = ISIZE_MIN THEN (IF checks THEN NegOverflow ELSE ISIZE_MIN) ELSE 0 - v

wrapping_add_signed(a, d) == (a + d + 2^UsizeBits) % 2^UsizeBits

translate_transform(self, x, y, checks) ==
    LET nx == isize_neg(self.x, checks)
        ny == isize_neg(self.y, checks)
    IN IF nx = NegOverflow \/ ny = NegOverflow THEN Panic
       ELSE Coord(wrapping_add_signed(x, nx), wrapping_add_signed(y, ny))

\* `(v as i32).try_into().unwrap_or(usize::MAX)`
i32_to_usize_or_max(v) == IF v < 0 \/ v > USIZE_MAX THEN USIZE_MAX ELSE v

\* the source coordinate as f32, before the conversion to usize
matrix_source(self, x, y) ==
    LET relative_x == F32Sub(F32FromInt(x), self.center_x)
        relative_y == F32Sub(F32FromInt(y), self.center_y)
        new_x == F32Add(F32Mul(relative_x, self.matrix[1]),
                        F32Mul(relative_y, self.matrix[2]))
        new_y == F32Add(F32Mul(relative_x, self.matrix[3]),
                        F32Mul(relative_y, self.matrix[4]))
    IN Coord(F32Add(new_x, self.center_x), F32Add(new_y, self.center_y))

matrix_transform(self, x, y) ==
    LET uncentered == matrix_source(self, x, y)
    IN Coord(i32_to_usize_or_max(F32AsI32(uncentered.x)),
             i32_to_usize_or_max(F32AsI32(uncentered.y)))

\* Filter::filter_transform; the default implementation is the identity
filter_transform(self, x, y, checks) ==
    CASE self.kind = "Translate" -> translate_transform(self, x, y, checks)
      [] self.kind = "Matrix" -> matrix_transform(self, x, y)
      [] OTHER -> Coord(x, y)

bounded_multiply(min, max, lhs, rhs) == F32Max(F32Min(F32Mul(lhs, rhs), max), min)

brightness_pixel(self, pixel) ==
    LET ch(v) == from_f32(bounded_multiply(F32Zero, F32FromInt(255),
                                           F32FromInt(v), self.multiplier))
    IN IF NoChannel \in {ch(pixel.r), ch(pixel.g), ch(pixel.b)} THEN Panic
       ELSE rgba(ch(pixel.r), ch(pixel.g), ch(pixel.b), pixel.a)

\* Filter::filter_pixel; the default implementation is the identity
filter_pixel(self, pixel) ==
    CASE self.kind = "Brightness" -> brightness_pixel(self, pixel)
      [] OTHER -> pixel

(***************************************************************************)
(* MatrixTransform builder                                                 *)
(***************************************************************************)
MatrixTransform(matrix, center_x, center_y) ==
    [kind |-> "Matrix", matrix |-> matrix, center_x |-> center_x, center_y |-> center_y]

MatrixTransform_new(center_x, center_y) ==
    MatrixTransform(<<F32One, F32Zero, F32Zero, F32One>>, center_x, center_y)

apply_matrix_premultiply(self, matrix) ==
    LET m == self.matrix
    IN [self EXCEPT !.matrix =
          <<F32Add(F32Mul(matrix[1], m[1]), F32Mul(matrix[2], m[3])),
            F32Add(F32Mul(matrix[1], m[2]), F32Mul(matrix[2], m[4])),
            F32Add(F32Mul(matrix[3], m[1]), F32Mul(matrix[4], m[3])),
            F32Add(F32Mul(matrix[3], m[2]), F32Mul(matrix[4], m[4]))>>]

apply_matrix(self, matrix) ==
    LET m == self.matrix
    IN [self EXCEPT !.matrix =
          <<F32Add(F32Mul(m[1], matrix[1]), F32Mul(m[2], matrix[3])),
            F32Add(F32Mul(m[1], matrix[2]), F32Mul(m[2], matrix[4])),
            F32Add(F32Mul(m[3], matrix[1]), F32Mul(m[4], matrix[3])),
            F32Add(F32Mul(m[3], matrix[2]), F32Mul(m[4], matrix[4]))>>]

\* f32::to_radians multiplies by the f32 constant PI / 180
RADS_PER_DEG == [s |-> 0, m |-> 9370165, e |-> 0 - 29]

to_radians(angle) == F32Mul(angle, RADS_PER_DEG)

\* f32::cos and f32::sin at the angles the model rotates by
\* (0, -45, -90 and -180 degrees in radians)
TrigTable ==
    << [rad |-> F32Zero,
        cos |-> [s |-> 0, m |-> 8388608, e |-> 0 - 23],
        sin |-> F32Zero],
       [rad |-> [s |-> 1, m |-> 13176795, e |-> 0 - 24],
        cos |-> [s |-> 0, m |-> 11863283, e |-> 0 - 24],
        sin |-> [s |-> 1, m |-> 11863283, e |-> 0 - 24]],
       [rad |-> [s |-> 1, m |-> 13176795, e |-> 0 - 23],
        cos |-> [s |-> 1, m |-> 12303662, e |-> 0 - 48],
        sin |-> [s |-> 1, m |-> 8388608, e |-> 0 - 23]],
       [rad |-> [s |-> 1, m |-> 13176795, e |-> 0 - 22],
        cos |-> [s |-> 1, m |-> 8388608, e |-> 0 - 23],
        sin |-> [s |-> 0, m |-> 12303662, e |-> 0 - 47]] >>

TrigEntry(rad) == CHOOSE i \in 1..Len(TrigTable) : TrigTable[i].rad = rad

F32Cos(rad) == TrigTable[TrigEntry(rad)].cos

F32Sin(rad) == TrigTable[TrigEntry(rad)].sin

rotate(self, angle) ==
    LET angle_rad == F32Neg(to_radians(angle))
        cos == F32Cos(angle_rad)
        sin == F32Sin(angle_rad)
    IN apply_matrix(self, <<cos, F32Neg(sin), sin, cos>>)

\* f32::inv
F32Inv(v) == F32Div(F32One, v)

scale(self, factor) ==
    apply_matrix(self, <<F32Inv(factor), F32Zero, F32Zero, F32Inv(factor)>>)

scale_axis(self, scale_x, scale_y) ==
    apply_matrix(self, <<F32Inv(scale_x), F32Zero, F32Zero, F32Inv(scale_y)>>)

shear_x(self, factor) ==
    apply_matrix(self, <<F32One, F32Neg(factor), F32Zero, F32One>>)

shear_y(self, factor) ==
    apply_matrix(self, <<F32One, F32Zero, F32Neg(factor), F32One>>)

(***************************************************************************)
(* Layers                                                                  *)
(***************************************************************************)
RectangleLayer(fill, rect, filters) ==
    [kind |-> "Rectangle", fill |-> fill, rect |-> rect, filters |-> filters]

RectangleLayer_new(fill, rect) == RectangleLayer(fill, rect, <<>>)

ImageLayer(im, x, y, filters) ==
    [kind |-> "Image", im |-> im, x |-> x, y |-> y, filters |-> filters]

ImageLayer_new(im, x, y) == ImageLayer(im, x, y, <<>>)

get_rect(self) ==
    CASE self.kind = "Rectangle" -> self.rect
      [] self.kind = "Image" -> Rect(self.x, self.y, self.im.width, self.im.height)

get_filters(self) == self.filters

\* Option::unwrap
unwrap(option) == IF option = None THEN Panic ELSE option

\* ImageLayer: self.im.pixel_at(x - self.x, y - self.y).unwrap()
unfiltered_pixel_at_unchecked(self, x, y) ==
    unwrap(pixel_at(self.im, x - self.x, y - self.y))

\* the trait default, and RectangleLayer's own implementation
unfiltered_pixel_at(self, x, y) ==
    CASE self.kind = "Rectangle" ->
             IF contains(self.rect, x, y) THEN self.fill ELSE None
      [] self.kind = "Image" ->
             IF contains(get_rect(self), x, y)
             THEN unfiltered_pixel_at_unchecked(self, x, y)
             ELSE None

RECURSIVE transform_coord_reversed(_, _, _, _)
transform_coord_reversed(filters, i, coord, checks) ==
    IF i > Len(filters) \/ coord = Panic THEN coord
    ELSE transform_coord_reversed(filters, i + 1,
             filter_transform(filters[Len(filters) + 1 - i], coord.x, coord.y, checks),
             checks)

\* the first loop of filtered_pixel_at: filters[i..] applied to coord
RECURSIVE transform_coord(_, _, _, _)
transform_coord(filters, i, coord, checks) ==
    IF i > Len(filters) \/ coord = Panic THEN coord
    ELSE transform_coord(filters, i + 1,
                         filter_transform(filters[i], coord.x, coord.y, checks),
                         checks)

\* the second loop of filtered_pixel_at: filters[i..] applied to pixel
RECURSIVE transform_pixel(_, _, _)
transform_pixel(filters, i, pixel) ==
    IF i > Len(filters) \/ pixel = Panic THEN pixel
    ELSE transform_pixel(filters, i + 1, filter_pixel(filters[i], pixel))

\* `let mut pixel = self.unfiltered_pixel_at(x, y)?;` and the second loop
filtered_pixel_from(filters, pixel) ==
    IF pixel = None \/ pixel = Panic THEN pixel
    ELSE transform_pixel(filters, 1, pixel)

\* filtered_pixel_at once the first loop has produced transformed_coord
filtered_pixel_at_transformed(self, transformed_coord) ==
    IF transformed_coord = Panic THEN Panic
    ELSE filtered_pixel_from(get_filters(self),
             unfiltered_pixel_at(self, transformed_coord.x, transformed_coord.y))

filtered_pixel_at(self, x, y, checks) ==
    filtered_pixel_at_transformed(self,
        transform_coord(get_filters(self), 1, Coord(x, y), checks))

(***************************************************************************)
(* Canvas                                                                  *)
(***************************************************************************)
blend_layer_pixel_none_as_default(running_pixel, layer_pixel) ==
    IF layer_pixel = Panic THEN Panic
    ELSE IF layer_pixel # None
         THEN blend(Over, running_pixel, layer_pixel)
         ELSE blend(Over, running_pixel, DefaultPixel)

\* the body of the loop of combined_pixel_at:
\* `if let Some(p) = layer_pixel { running_pixel = Over.blend(running_pixel, p) }`
blend_layer_pixel(running_pixel, layer_pixel) ==
    IF layer_pixel = Panic THEN Panic
    ELSE IF layer_pixel # None
         THEN blend(Over, running_pixel, layer_pixel)
         ELSE running_pixel

\* the loop of combined_pixel_at from layer i on
RECURSIVE blend_layers(_, _, _, _, _, _)
blend_layers(layers, i, running_pixel, x, y, checks) ==
    IF i > Len(layers) \/ running_pixel = Panic THEN running_pixel
    ELSE blend_layers(layers, i + 1,
             blend_layer_pixel(running_pixel,
                               filtered_pixel_at(layers[i], x, y, checks)),
             x, y, checks)

combined_pixel_at_top_first(self, x, y, checks) ==
    blend_layers([i \in 1..Len(self.layers) |->
                      self.layers[Len(self.layers) + 1 - i]],
                 1, self.background, x, y, checks)

combined_pixel_at(self, x, y, checks) ==
    blend_layers(self.layers, 1, self.background, x, y, checks)

add_layer(self, layer) == [self EXCEPT !.layers = Append(@, layer)]

\* Result::unwrap of Image::from_pixels
unwrap_result(result) ==
    IF result = ZeroWidth \/ result = IncorrectWidth THEN Panic ELSE result

\* the nested loops of flatten: rows outermost, columns innermost
flatten_pixels(self, checks) ==
    [i \in 1..(self.width * self.height) |->
         combined_pixel_at(self, (i - 1) % self.width, (i - 1) \div self.width,
                           checks)]

\* Image::from_pixels(pixels, self.width).unwrap(); a panic while a pixel is
\* computed ends the call before
image_of_pixels(pixels, width) ==
    IF \E i \in 1..Len(pixels) : pixels[i] = Panic THEN Panic
    ELSE unwrap_result(from_pixels(pixels, width))

flatten(self, checks) ==
    image_of_pixels(flatten_pixels(self, checks), self.width)

(***************************************************************************)
(* Channel types and casting a channel buffer to a pixel buffer            *)
(***************************************************************************)
ChannelTypes == {"u8", "u16", "f32"}

\* a float that is not a number: every comparison with it is false
F32NaN == [s |-> 0, m |-> 0, e |-> 0, nan |-> TRUE]

IsNaN(v) == "nan" \in DOMAIN v

\* PixelChannelBounds::is_valid_channel_value: always true for the integer
\* types, MIN_PIXEL_VALUE <= self && MAX_PIXEL_VALUE >= self for f32
is_valid_channel_value(channel, v) ==
    IF channel = "f32"
    THEN ~IsNaN(v) /\ ~F32Less(v, F32Zero) /\ ~F32Less(F32One, v)
    ELSE TRUE

\* a Vec<T>: its elements, its capacity and its element type
Vec(items, capacity, channel) ==
    [items |-> items, capacity |-> capacity, channel |-> channel]

VecCastError(original_vec, kind) ==
    [ok |-> FALSE, original_vec |-> original_vec, kind |-> kind]

\* element i (from 0) of the buffer read as AlphaPixel<T>, a repr(C) struct
\* of r, g, b, a
pixel_of_chunk(items, i) ==
    rgba(items[4 * i + 1], items[4 * i + 2], items[4 * i + 3], items[4 * i + 4])

from_raw_parts_keeps_capacity(channel_vec, new_length, new_cap) ==
    [ok |-> TRUE,
     vec |-> Vec([i \in 1..new_length |-> pixel_of_chunk(channel_vec.items, i - 1)],
                 channel_vec.capacity, channel_vec.channel)]

\* Vec::from_raw_parts(ptr as *mut AlphaPixel<T>, new_length, new_cap)
from_raw_parts(channel_vec, new_length, new_cap) ==
    [ok |-> TRUE,
     vec |-> Vec([i \in 1..new_length |-> pixel_of_chunk(channel_vec.items, i - 1)],
                 new_cap, channel_vec.channel)]

try_pixel_vec_from_channels_no_capacity_check(channel_vec) ==
    IF \E i \in 1..Len(channel_vec.items) :
           ~is_valid_channel_value(channel_vec.channel, channel_vec.items[i])
    THEN VecCastError(channel_vec, "InvalidChannelValue")
    ELSE IF Len(channel_vec.items) % 4 = 0
         THEN from_raw_parts(channel_vec, Len(channel_vec.items) \div 4,
                             channel_vec.capacity \div 4)
         ELSE VecCastError(channel_vec, "IncorrectLength")

try_pixel_vec_from_channels(channel_vec) ==
    IF \E i \in 1..Len(channel_vec.items) :
           ~is_valid_channel_value(channel_vec.channel, channel_vec.items[i])
    THEN VecCastError(channel_vec, "InvalidChannelValue")
    ELSE IF Len(channel_vec.items) % 4 = 0
         THEN IF channel_vec.capacity % 4 = 0
              THEN from_raw_parts(channel_vec, Len(channel_vec.items) \div 4,
                                  channel_vec.capacity \div 4)
              ELSE VecCastError(channel_vec, "IncorrectCapacity")
         ELSE VecCastError(channel_vec, "IncorrectLength")

(***************************************************************************)
(* Pixels of any channel type                                              *)
(***************************************************************************)
\* T::MAX_PIXEL_VALUE.into() and T::MIN_PIXEL_VALUE.into(), as f32
MAX_PIXEL_VALUE_f32(channel) ==
    CASE channel = "u8" -> F32FromInt(255)
      [] channel = "u16" -> F32FromInt(65535)
      [] channel = "f32" -> F32One

MIN_PIXEL_VALUE_f32(channel) == F32Zero

\* Into<f32> for a channel value
channel_into_f32(channel, v) == IF channel = "f32" THEN v ELSE F32FromInt(v)

\* T::from_f32(x) is None: the truncated x does not fit the integer type
\* (f32::from_f32 is always Some)
from_f32_is_none(channel, x) ==
    CASE channel = "u8" -> F32AsI32(x) < 0 \/ F32AsI32(x) > 255
      [] channel = "u16" -> F32AsI32(x) < 0 \/ F32AsI32(x) > 65535
      [] channel = "f32" -> FALSE

\* the value of T::from_f32(x) when it is Some: x truncated towards zero
channel_from_f32(channel, x) == IF channel = "f32" THEN x ELSE F32AsI32(x)

\* a pixel whose r, g, b, a are the given floats converted with T::from_f32
\* and unwrapped
pixel_from_f32(channel, r, g, b, a) ==
    IF \/ from_f32_is_none(channel, r) \/ from_f32_is_none(channel, g)
       \/ from_f32_is_none(channel, b) \/ from_f32_is_none(channel, a)
    THEN Panic
    ELSE [channel |-> channel,
          pixel |-> rgba(channel_from_f32(channel, r), channel_from_f32(channel, g),
                         channel_from_f32(channel, b), channel_from_f32(channel, a))]

as_float_pixel_of_u8_max(channel, p) ==
    [r |-> F32Div(channel_into_f32(channel, p.r), F32FromInt(255)),
     g |-> F32Div(channel_into_f32(channel, p.g), F32FromInt(255)),
     b |-> F32Div(channel_into_f32(channel, p.b), F32FromInt(255)),
     a |-> F32Div(channel_into_f32(channel, p.a), F32FromInt(255))]

\* AlphaPixel<T>::as_float_pixel for any T
as_float_pixel_of(channel, p) ==
    [r |-> F32Div(channel_into_f32(channel, p.r), MAX_PIXEL_VALUE_f32(channel)),
     g |-> F32Div(channel_into_f32(channel, p.g), MAX_PIXEL_VALUE_f32(channel)),
     b |-> F32Div(channel_into_f32(channel, p.b), MAX_PIXEL_VALUE_f32(channel)),
     a |-> F32Div(channel_into_f32(channel, p.a), MAX_PIXEL_VALUE_f32(channel))]

scaled_pixel(target, float_pixel) ==
    pixel_from_f32(target,
                   F32Mul(MAX_PIXEL_VALUE_f32(target), float_pixel.r),
                   F32Mul(MAX_PIXEL_VALUE_f32(target), float_pixel.g),
                   F32Mul(MAX_PIXEL_VALUE_f32(target), float_pixel.b),
                   F32Mul(MAX_PIXEL_VALUE_f32(target), float_pixel.a))

\* AlphaPixel<T>::as_different_channel::<U>
as_different_channel(channel, p, target) ==
    scaled_pixel(target, as_float_pixel_of(channel, p))

\* BrightnessFilter::filter_pixel for AlphaPixel<T>: alpha is copied, not
\* converted
brightness_filter_pixel(multiplier, channel, p) ==
    IF \E v \in {p.r, p.g, p.b} :
          from_f32_is_none(channel,
              bounded_multiply(F32Zero, F32FromInt(255),
                               channel_into_f32(channel, v), multiplier))
    THEN Panic
    ELSE [channel |-> channel,
          pixel |-> rgba(
              channel_from_f32(channel,
                  bounded_multiply(F32Zero, F32FromInt(255),
                                   channel_into_f32(channel, p.r), multiplier)),
              channel_from_f32(channel,
                  bounded_multiply(F32Zero, F32FromInt(255),
                                   channel_into_f32(channel, p.g), multiplier)),
              channel_from_f32(channel,
                  bounded_multiply(F32Zero, F32FromInt(255),
                                   channel_into_f32(channel, p.b), multiplier)),
              p.a)]

(***************************************************************************)
(* Text layout: LayoutIter                                                 *)
(***************************************************************************)
\* f32::ceil
F32Ceil(x) ==
    IF x.m = 0 \/ x.e >= 0 THEN x
    ELSE IF x.e < 0 - 30 THEN (IF x.s = 1 THEN F32Zero ELSE F32One)
    ELSE IF x.s = 1 THEN F32FromInt(0 - (x.m \div 2^(0 - x.e)))
    ELSE F32FromInt((x.m \div 2^(0 - x.e))
                    + (IF x.m % 2^(0 - x.e) = 0 THEN 0 ELSE 1))

\* `x as isize`: truncation towards zero (the values of this model stay far
\* from the saturation bounds)
F32AsIsize(x) == F32AsI32(x)

DEFAULT_VERTICAL_SPACING == F32FromInt(10)

SpacingMode_Scale(v) == [mode |-> "Scale", v |-> v]
SpacingMode_Constant(v) == [mode |-> "Constant", v |-> v]

TextLayout(direction, align, line_spacing, glyph_spacing, use_kern) ==
    [direction |-> direction, align |-> align, line_spacing |-> line_spacing,
     glyph_spacing |-> glyph_spacing, use_kern |-> use_kern]

TextLayout_default ==
    TextLayout("LeftToRight", "Start", SpacingMode_Scale(F32One), SpacingMode_Scale(F32One), TRUE)

TextSettings(layout, text, font) == [layout |-> layout, text |-> text, font |-> font]

MissingLineSpacing == [ok |-> FALSE, err |-> "MissingLineSpacing"]

EndOfSequence == [end |-> TRUE]

NewLine == "\n"

\* str::split('\n'): the pieces between newlines, at least one
RECURSIVE split_from(_, _, _)
split_from(text, i, piece) ==
    IF i > Len(text) THEN <<piece>>
    ELSE IF text[i] = NewLine THEN <<piece>> \o split_from(text, i + 1, <<>>)
    ELSE split_from(text, i + 1, Append(piece, text[i]))

split_single_line(text) == <<text>>

split(text) == split_from(text, 1, <<>>)

Reverse(s) == [i \in 1..Len(s) |-> s[Len(s) + 1 - i]]

either_iter_from_chars_never_reversed(align, chars) == chars

\* the characters of a line in the order they will be taken
either_iter_from_chars(align, chars) ==
    IF align = "Start" THEN chars ELSE Reverse(chars)

LayoutIter_new(settings) ==
    [lines |-> Tail(split(settings.text)),
     current_row_text |->
         either_iter_from_chars(settings.layout.align, Head(split(settings.text))),
     prev_data |-> None,
     row |-> 0]

\* Font::horizontal_kern(left, right, size).unwrap_or(0.0)
horizontal_kern_or_zero(font, left, right) ==
    IF <<left, right>> \in DOMAIN font.kern THEN font.kern[<<left, right>>]
    ELSE F32Zero

kern_of(settings, prev_char, next_char) ==
    IF settings.layout.align = "Start"
    THEN horizontal_kern_or_zero(settings.font, prev_char, next_char)
    ELSE F32Neg(horizontal_kern_or_zero(settings.font, next_char, prev_char))

calculate_kerned_origin(settings, origin, prev_char, next_char) ==
    IF settings.layout.glyph_spacing.mode = "Scale"
    THEN origin + F32AsIsize(F32Mul(kern_of(settings, prev_char, next_char),
                                    settings.layout.glyph_spacing.v))
    ELSE origin + F32AsIsize(kern_of(settings, prev_char, next_char))

\* Err is MissingLineSpacing, Ok is [ok |-> TRUE, v |-> the isize]
Ok(v) == [ok |-> TRUE, v |-> v]

calculate_baseline_always_needs_metrics(self, settings, metrics) ==
    IF settings.layout.direction = "LeftToRight"
    THEN IF ~settings.font.horizontal_line_metrics.some
         THEN MissingLineSpacing
         ELSE IF settings.layout.line_spacing.mode = "Constant"
         THEN Ok(F32AsIsize(F32Mul(settings.layout.line_spacing.v,
                                   F32FromInt(self.row + 1))))
         ELSE Ok(F32AsIsize(
                 F32Add(F32Sub(settings.font.horizontal_line_metrics.ascent,
                               settings.font.horizontal_line_metrics.descent),
                        F32Mul(F32Mul(settings.font.horizontal_line_metrics.new_line_size,
                                      F32FromInt(self.row)),
                               settings.layout.line_spacing.v))))
    ELSE IF self.prev_data # None
         THEN Ok(self.prev_data.origin)
         ELSE Ok(metrics.height + metrics.ymin)

calculate_baseline(self, settings, metrics) ==
    IF settings.layout.direction = "LeftToRight"
    THEN IF settings.layout.line_spacing.mode = "Constant"
         THEN Ok(F32AsIsize(F32Mul(settings.layout.line_spacing.v,
                                   F32FromInt(self.row + 1))))
         ELSE IF settings.font.horizontal_line_metrics.some
         THEN Ok(F32AsIsize(
                 F32Add(F32Sub(settings.font.horizontal_line_metrics.ascent,
                               settings.font.horizontal_line_metrics.descent),
                        F32Mul(F32Mul(settings.font.horizontal_line_metrics.new_line_size,
                                      F32FromInt(self.row)),
                               settings.layout.line_spacing.v))))
         ELSE MissingLineSpacing
    ELSE IF self.prev_data # None
         THEN Ok(self.prev_data.origin)
         ELSE Ok(metrics.height + metrics.ymin)

calculate_origin_x(self, settings, next_char) ==
    IF settings.layout.direction = "LeftToRight"
    THEN IF self.prev_data # None
         THEN IF settings.layout.use_kern
              THEN Ok(calculate_kerned_origin(settings, self.prev_data.origin,
                                              self.prev_data.char, next_char))
              ELSE Ok(self.prev_data.origin)
         ELSE Ok(0)
    ELSE IF settings.layout.line_spacing.mode = "Scale"
         THEN IF settings.font.vertical_line_metrics.some
              THEN Ok(F32AsIsize(
                      F32Mul(F32Mul(settings.font.vertical_line_metrics.new_line_size,
                                    F32FromInt(self.row)),
                             settings.layout.line_spacing.v)))
              ELSE MissingLineSpacing
         ELSE Ok(F32AsIsize(F32Mul(F32FromInt(self.row),
                                   settings.layout.line_spacing.v)))

next_line_keeps_prev_data(self, settings) ==
    [self EXCEPT
        !.current_row_text =
            either_iter_from_chars(settings.layout.align, Head(self.lines)),
        !.lines = Tail(self.lines),
        !.row = self.row + 1]

\* the None arm of the loop in next when another line is left: take it,
\* count the row and forget the previous glyph
next_line(self, settings) ==
    [self EXCEPT
        !.current_row_text =
            either_iter_from_chars(settings.layout.align, Head(self.lines)),
        !.lines = Tail(self.lines),
        !.row = self.row + 1,
        !.prev_data = None]

\* the loop at the head of next: move to the next line until one has a
\* character left; `self.lines.next()?` ends the call when no line is left
RECURSIVE seek_char(_, _)
seek_char(self, settings) ==
    IF self.current_row_text # <<>> THEN [self |-> self, found |-> TRUE]
    ELSE IF self.lines = <<>> THEN [self |-> self, found |-> FALSE]
    ELSE seek_char(next_line(self, settings), settings)

direction_negation(settings) ==
    IF settings.layout.align = "Start" THEN F32One ELSE F32Neg(F32One)

shifted_glyph_origin(settings, metrics, unshifted_glyph_x, baseline, glyph_y) ==
    IF settings.layout.direction = "LeftToRight"
    THEN IF settings.layout.glyph_spacing.mode = "Scale"
         THEN unshifted_glyph_x
              + F32AsIsize(F32Mul(F32Mul(settings.layout.glyph_spacing.v,
                                         F32Ceil(metrics.advance_width)),
                                  direction_negation(settings)))
         ELSE unshifted_glyph_x
              + F32AsIsize(F32Mul(direction_negation(settings),
                                  settings.layout.glyph_spacing.v))
    ELSE IF settings.layout.glyph_spacing.mode = "Scale"
         THEN glyph_y
              + F32AsIsize(F32Mul(settings.layout.glyph_spacing.v,
                                  F32Add(F32FromInt(metrics.height),
                                         DEFAULT_VERTICAL_SPACING)))
         ELSE baseline + F32AsIsize(settings.layout.glyph_spacing.v)

\* what next leaves: the iterator and the item returned
Step(self, item) == [self |-> self, item |-> item]

\* the x of the item: the unshifted x for Start, the shifted origin for End
emitted_x(settings, unshifted_glyph_x, shifted) ==
    IF settings.layout.align = "Start" THEN unshifted_glyph_x ELSE shifted

\* the tail of next once origin x and baseline are known
place_glyph(self, settings, next_char, metrics, unshifted_glyph_x, baseline) ==
    Step([self EXCEPT !.prev_data =
              [char |-> next_char,
               origin |-> shifted_glyph_origin(settings, metrics, unshifted_glyph_x,
                                               baseline,
                                               (baseline - metrics.ymin) - metrics.height)]],
         [ok |-> TRUE, glyph |-> next_char,
          x |-> emitted_x(settings, unshifted_glyph_x,
                          shifted_glyph_origin(settings, metrics, unshifted_glyph_x,
                                               baseline,
                                               (baseline - metrics.ymin) - metrics.height)),
          y |-> (baseline - metrics.ymin) - metrics.height])

\* next after the character has been taken from current_row_text
next_for_char(self, settings, next_char) ==
    IF ~calculate_origin_x(self, settings, next_char).ok
    THEN Step(self, MissingLineSpacing)
    ELSE IF ~calculate_baseline(self, settings, settings.font.metrics[next_char]).ok
    THEN Step(self, MissingLineSpacing)
    ELSE place_glyph(self, settings, next_char, settings.font.metrics[next_char],
                     calculate_origin_x(self, settings, next_char).v
                         + settings.font.metrics[next_char].xmin,
                     calculate_baseline(self, settings,
                                        settings.font.metrics[next_char]).v)

next_after_seek_rewinding(sought, settings) ==
    IF ~sought.found THEN Step(LayoutIter_new(settings), EndOfSequence)
    ELSE next_for_char([sought.self EXCEPT !.current_row_text = Tail(@)],
                       settings, Head(sought.self.current_row_text))

next_after_seek(sought, settings) ==
    IF ~sought.found THEN Step(sought.self, EndOfSequence)
    ELSE next_for_char([sought.self EXCEPT !.current_row_text = Tail(@)],
                       settings, Head(sought.self.current_row_text))

\* LayoutIter::next
next(self, settings) == next_after_seek(seek_char(self, settings), settings)

(***************************************************************************)
(* TextLayer                                                               *)
(***************************************************************************)
\* the fold of glyph_positions: the placements in the order drawn, the
\* minimum and the maximum coordinate; `layout?` returns the first error
Positions(placements, min_x, min_y, max_x, max_y) ==
    [ok |-> TRUE, placements |-> placements,
     min_x |-> min_x, min_y |-> min_y, max_x |-> max_x, max_y |-> max_y]

Max(a, b) == IF a >= b THEN a ELSE b
Min(a, b) == IF a <= b THEN a ELSE b

add_position(acc, item, metrics) ==
    Positions(Append(acc.placements, item),
              Min(acc.min_x, item.x), Min(acc.min_y, item.y),
              Max(acc.max_x, item.x + metrics.width),
              Max(acc.max_y, item.y + metrics.height))

RECURSIVE glyph_positions_from(_, _, _)
glyph_positions_from(step, settings, acc) ==
    IF step.item = EndOfSequence THEN acc
    ELSE IF ~step.item.ok THEN MissingLineSpacing
    ELSE glyph_positions_from(next(step.self, settings), settings,
                              add_position(acc, step.item,
                                           settings.font.metrics[step.item.glyph]))

glyph_positions(settings) ==
    glyph_positions_from(next(LayoutIter_new(settings), settings), settings,
                         Positions(<<>>, 0, 0, 0, 0))

\* the fill of the text with full coverage as its alpha
OpaqueFill == rgba(255, 0, 0, 255)

\* Font::rasterize as an image: every sample of the glyph covered
\* (coverage 255 put in the alpha of the fill)
raster_image(settings, glyph) ==
    unwrap_result(from_pixels([i \in 1..(settings.font.metrics[glyph].width
                            * settings.font.metrics[glyph].height) |-> OpaqueFill],
                settings.font.metrics[glyph].width))

\* the blits of raster_from_settings in the order of the placements; a blit
\* that does not return Some(()) makes `unwrap` panic
RECURSIVE draw_glyphs(_, _, _, _)
draw_glyphs(outcome, settings, positions, i) ==
    IF outcome.ret # "Some" THEN Panic
    ELSE IF i > Len(positions.placements) THEN outcome.im
    ELSE draw_glyphs(draw_subimage(outcome.im,
                                   raster_image(settings, positions.placements[i].glyph),
                                   positions.placements[i].x - positions.min_x,
                                   positions.placements[i].y - positions.min_y,
                                   Over, TRUE),
                     settings, positions, i + 1)

raster_of_positions(settings, positions) ==
    IF ~positions.ok THEN MissingLineSpacing
    ELSE draw_glyphs(Outcome(unwrap_result(from_pixels([i \in 1..((positions.max_x - positions.min_x)
                                            * (positions.max_y - positions.min_y))
                                     |-> DefaultPixel],
                                 positions.max_x - positions.min_x)), "Some"),
                     settings, positions, 1)

raster_from_settings(settings) == raster_of_positions(settings, glyph_positions(settings))

TextLayer(settings, rasterized) == [settings |-> settings, rasterized |-> rasterized]

\* try_new once the rasterization is known: Err(MissingLineSpacing), a panic,
\* or the new layer
try_new_with(settings, raster) ==
    IF raster = MissingLineSpacing \/ raster = Panic THEN raster
    ELSE TextLayer(settings, raster)

try_new(settings) == try_new_with(settings, raster_from_settings(settings))

\* set_settings once the rasterization is known: self.settings is assigned
\* before the rasterization is tried
set_settings_with(self, settings, raster) ==
    IF raster = MissingLineSpacing
    THEN [self |-> TextLayer(settings, self.rasterized), ret |-> "Err"]
    ELSE IF raster = Panic
    THEN [self |-> TextLayer(settings, self.rasterized), ret |-> "Panic"]
    ELSE [self |-> TextLayer(settings, raster), ret |-> "Ok"]

set_settings(self, settings) ==
    set_settings_with(self, settings, raster_from_settings(settings))

(***************************************************************************)
(* State                                                                   *)
(***************************************************************************)
VARIABLES
    blend_in1,      \* first argument of BlendingMethod::blend (background)
    blend_in2,      \* second argument of BlendingMethod::blend (foreground)
    blend_method,   \* the BlendingMethod of the last blend call, or None
    blend_out,      \* result of the last blend call, or None
    overflow_checks,\* whether the build panics on integer overflow
    cur_layer,      \* a Layer and its filter chain
    query,          \* coordinate of the last filtered_pixel_at call, or None
    sample,         \* result of the last filtered_pixel_at call, or None
    mt,             \* a MatrixTransform under construction
    mt_ops,         \* the builder calls made on mt so far, in order
    t_in,           \* coordinate of the last filter_transform call on mt
    t_out,          \* result of the last filter_transform call on mt
    canvas,         \* the Canvas: layers, background, width, height
    flat,           \* result of flatten() on the canvas as it is, or None
    im,             \* an Image, or what its constructor returned
    im_src,         \* the source Image of the last draw_subimage call, or None
    im_call,        \* the last call on im with its arguments and im before it
    im_ret,         \* what the last call on im returned: "Some", "None",
                    \* "Panic" when it panicked, "NotCalled" before any
    r_self,         \* a Rect
    r_point,        \* coordinate of the last contains call on r_self, or None
    r_out,          \* result of the last contains call on r_self, or None
    channel_vec,    \* a Vec of channels: its items, capacity and channel type
    cast_out,       \* result of try_pixel_vec_from_channels(channel_vec), or None
    ch_pixel,       \* a pixel and its channel type
    ch_call,        \* the last conversion or filter applied to ch_pixel, or None
    ch_out,         \* its result, or None
    text_settings,  \* the TextSettings a LayoutIter borrows, or None
    layout_iter,    \* the LayoutIter: lines, current_row_text, prev_data, row
    emitted,        \* the items next has returned, each with the row and the
                    \* previous-glyph context it was computed from
    layout_ret,     \* what the last call of next returned, or None
    layout_calls,   \* how many times next was called
    tl,             \* a TextLayer: its settings and its rasterized image, or None
    tl_ret          \* what the last try_new or set_settings returned

blendVars == <<blend_in1, blend_in2, blend_method, blend_out>>

layerVars == <<cur_layer, query, sample>>

matrixVars == <<mt, mt_ops, t_in, t_out>>

canvasVars == <<canvas, flat>>

imageVars == <<im, im_src, im_call, im_ret>>

rectVars == <<r_self, r_point, r_out>>

vecVars == <<channel_vec, cast_out>>

channelVars == <<ch_pixel, ch_call, ch_out>>

layoutVars == <<text_settings, layout_iter, emitted, layout_ret, layout_calls>>

textLayerVars == <<tl, tl_ret>>

textVars == <<layoutVars, textLayerVars>>

dataVars == <<imageVars, rectVars, vecVars, channelVars, textVars>>

vars == <<blendVars, overflow_checks, layerVars, matrixVars, canvasVars, dataVars>>

(***************************************************************************)
(* The parts of the state a specification leaves alone                     *)
(***************************************************************************)
LayerIdle ==
    /\ cur_layer = RectangleLayer_new(DefaultPixel, Rect(0, 0, 0, 0))
    /\ query = None
    /\ sample = None

MatrixIdle ==
    /\ mt = MatrixTransform_new(F32Zero, F32Zero)
    /\ mt_ops = <<>>
    /\ t_in = None
    /\ t_out = None

from_dimensions(width, height) ==
    [layers |-> <<>>, background |-> DefaultPixel, width |-> width, height |-> height]

CanvasIdle ==
    /\ canvas = from_dimensions(0, 0)
    /\ flat = None

ImageIdle ==
    /\ im = Image_new
    /\ im_src = None
    /\ im_call = None
    /\ im_ret = "NotCalled"

RectIdle ==
    /\ r_self = Rect(0, 0, 0, 0)
    /\ r_point = None
    /\ r_out = None

VecIdle ==
    /\ channel_vec = [items |-> <<>>, capacity |-> 0, channel |-> "u8"]
    /\ cast_out = None

ChannelIdle ==
    /\ ch_pixel = [channel |-> "u8", pixel |-> DefaultPixel]
    /\ ch_call = None
    /\ ch_out = None

LayoutIdle ==
    /\ text_settings = None
    /\ layout_iter = None
    /\ emitted = <<>>
    /\ layout_ret = None
    /\ layout_calls = 0

TextLayerIdle ==
    /\ tl = None
    /\ tl_ret = None

TextIdle == LayoutIdle /\ TextLayerIdle

DataIdle == ImageIdle /\ RectIdle /\ VecIdle /\ ChannelIdle /\ TextIdle

(***************************************************************************)
(* Blending a pair of pixels                                               *)
(***************************************************************************)
ColourInputs == {rgba(r, g, 100, 0) : r \in {0, 3, 255}, g \in {0, 200}}

AlphaInputs == {0, 1, 11, 102, 128, 254, 255}

PixelInputs == {[c EXCEPT !.a = a] : c \in ColourInputs, a \in AlphaInputs}
               \cup {DefaultPixel}

BlendIdle ==
    /\ blend_in1 = DefaultPixel
    /\ blend_in2 = DefaultPixel
    /\ blend_method = None
    /\ blend_out = None

InitBlend ==
    /\ blend_in1 \in PixelInputs
    /\ blend_in2 \in PixelInputs
    /\ blend_method = None
    /\ blend_out = None
    /\ overflow_checks = TRUE
    /\ LayerIdle /\ MatrixIdle /\ CanvasIdle /\ DataIdle

Blend(m) ==
    /\ blend_method = None
    /\ blend_method' = m
    /\ blend_out' = blend(m, blend_in1, blend_in2)
    /\ UNCHANGED <<blend_in1, blend_in2>>
    /\ UNCHANGED <<overflow_checks, layerVars, matrixVars, canvasVars, dataVars>>

NextBlend == \E m \in Methods : Blend(m)

SpecBlend == InitBlend /\ [][NextBlend]_vars

(***************************************************************************)
(* One layer, its filter chain and filtered_pixel_at                       *)
(***************************************************************************)
F32Half == F32Div(F32One, F32FromInt(2))

F32Two == F32FromInt(2)

\* a 2 x 2 image whose four pixels differ
SamplePixel ==
    [c \in (0..1) \X (0..1) |-> rgba(10 + 60 * c[1], 5 + 100 * c[2], 7, 255)]

SampleImage == from_function(2, 2, SamplePixel)

TranslateInputs ==
    {TranslateFilter(2, 0), TranslateFilter(0 - 1, 1), TranslateFilter(ISIZE_MIN, 0)}

MatrixInputs ==
    {scale(MatrixTransform_new(F32Zero, F32Zero), F32Two),
     shear_x(MatrixTransform_new(F32Zero, F32Zero), F32Half),
     rotate(MatrixTransform_new(F32One, F32One), F32FromInt(90))}

BrightnessInputs == {BrightnessFilter(F32Two)}

FilterInputs == TranslateInputs \cup MatrixInputs \cup BrightnessInputs

RectInputs ==
    {Rect(1, 1, 2, 2), Rect(USIZE_MAX - 3, 0, 3, 2), Rect(USIZE_MAX, 1, 2, 2),
     Rect(0, 0, USIZE_MAX, 1)}

LayerInputs ==
    {RectangleLayer_new(rgba(200, 100, 50, 255), r) : r \in RectInputs}
    \cup {ImageLayer_new(SampleImage, 1, 0)}

QueryCoords == {0, 1, 3, USIZE_MAX - 1, USIZE_MAX}

InitLayer ==
    /\ cur_layer \in LayerInputs
    /\ overflow_checks \in BOOLEAN
    /\ query = None
    /\ sample = None
    /\ BlendIdle /\ MatrixIdle /\ CanvasIdle /\ DataIdle

\* the owner pushes a filter onto the layer's public filter chain
PushFilter(f) ==
    /\ query = None
    /\ Len(cur_layer.filters) < MaxFilters
    /\ cur_layer' = [cur_layer EXCEPT !.filters = Append(@, f)]
    /\ UNCHANGED <<query, sample, blendVars, overflow_checks, matrixVars, canvasVars, dataVars>>

FilteredPixelAt(x, y) ==
    /\ query = None
    /\ query' = Coord(x, y)
    /\ sample' = filtered_pixel_at(cur_layer, x, y, overflow_checks)
    /\ UNCHANGED <<cur_layer, blendVars, overflow_checks, matrixVars, canvasVars, dataVars>>

NextLayer ==
    \/ \E f \in FilterInputs : PushFilter(f)
    \/ \E x \in QueryCoords, y \in QueryCoords : FilteredPixelAt(x, y)

SpecLayer == InitLayer /\ [][NextLayer]_vars

(***************************************************************************)
(* Building a MatrixTransform and transforming coordinates with it         *)
(***************************************************************************)
CenterInputs == {<<F32Zero, F32Zero>>, <<F32One, F32Zero>>}

AngleInputs == {F32FromInt(90), F32FromInt(180)}

FactorInputs == {F32Two}

ShearInputs == {F32Half}

\* inverse matrices handed to apply_matrix: a swap of the axes
InverseMatrixInputs == {<<F32Zero, F32One, F32One, F32Zero>>}

TransformCoords == 0..1

InitMatrix ==
    /\ \E c \in CenterInputs : mt = MatrixTransform_new(c[1], c[2])
    /\ mt_ops = <<>>
    /\ t_in = None
    /\ t_out = None
    /\ overflow_checks = TRUE
    /\ BlendIdle /\ LayerIdle /\ CanvasIdle /\ DataIdle

Building == t_in = None /\ Len(mt_ops) < MaxOps

MatrixFrame == UNCHANGED <<t_in, t_out, blendVars, overflow_checks, layerVars, canvasVars, dataVars>>

ApplyMatrix(matrix) ==
    /\ Building
    /\ mt' = apply_matrix(mt, matrix)
    /\ mt_ops' = Append(mt_ops, [op |-> "apply_matrix", matrix |-> matrix])
    /\ MatrixFrame

Rotate(angle) ==
    /\ Building
    /\ mt' = rotate(mt, angle)
    /\ mt_ops' = Append(mt_ops, [op |-> "rotate", angle |-> angle])
    /\ MatrixFrame

Scale(factor) ==
    /\ Building
    /\ mt' = scale(mt, factor)
    /\ mt_ops' = Append(mt_ops, [op |-> "scale", factor |-> factor])
    /\ MatrixFrame

ScaleAxis(scale_x, scale_y) ==
    /\ Building
    /\ mt' = scale_axis(mt, scale_x, scale_y)
    /\ mt_ops' = Append(mt_ops, [op |-> "scale_axis", scale_x |-> scale_x,
                                 scale_y |-> scale_y])
    /\ MatrixFrame

ShearX(factor) ==
    /\ Building
    /\ mt' = shear_x(mt, factor)
    /\ mt_ops' = Append(mt_ops, [op |-> "shear_x", factor |-> factor])
    /\ MatrixFrame

ShearY(factor) ==
    /\ Building
    /\ mt' = shear_y(mt, factor)
    /\ mt_ops' = Append(mt_ops, [op |-> "shear_y", factor |-> factor])
    /\ MatrixFrame

FilterTransform(x, y) ==
    /\ t_in = None
    /\ t_in' = Coord(x, y)
    /\ t_out' = matrix_transform(mt, x, y)
    /\ UNCHANGED <<mt, mt_ops, blendVars, overflow_checks, layerVars, canvasVars, dataVars>>

NextMatrix ==
    \/ \E m \in InverseMatrixInputs : ApplyMatrix(m)
    \/ \E a \in AngleInputs : Rotate(a)
    \/ \E f \in FactorInputs : Scale(f)
    \/ ScaleAxis(F32Two, F32Half)
    \/ \E f \in ShearInputs : ShearX(f)
    \/ ShearY(F32Half)
    \/ \E x \in TransformCoords, y \in TransformCoords : FilterTransform(x, y)

SpecMatrix == InitMatrix /\ [][NextMatrix]_vars

(***************************************************************************)
(* A canvas, its layers and flatten                                        *)
(***************************************************************************)
OpaqueRed == rgba(255, 0, 0, 255)

OpaqueBlue == rgba(0, 0, 255, 255)

CanvasLayerInputs ==
    {RectangleLayer_new(OpaqueRed, Rect(0, 0, 2, 1)),
     RectangleLayer_new(OpaqueBlue, Rect(0, 0, 1, 2)),
     RectangleLayer(rgba(0, 255, 0, 128), Rect(0, 0, 2, 2),
                    <<BrightnessFilter(F32Half)>>),
     ImageLayer_new(SampleImage, 1, 0),
     RectangleLayer(OpaqueRed, Rect(0, 0, 2, 2), <<TranslateFilter(ISIZE_MIN, 0)>>)}

BackgroundInputs ==
    {DefaultPixel, rgba(100, 100, 100, 255), rgba(3, 0, 100, 11), rgba(255, 200, 100, 0)}

InitCanvas ==
    /\ \E w \in 0..MaxDim, h \in 0..MaxDim : canvas = from_dimensions(w, h)
    /\ flat = None
    /\ overflow_checks \in BOOLEAN
    /\ BlendIdle /\ LayerIdle /\ MatrixIdle /\ DataIdle

CanvasFrame == UNCHANGED <<blendVars, overflow_checks, layerVars, matrixVars, dataVars>>

AddLayer(l) ==
    /\ flat = None
    /\ Len(canvas.layers) < MaxLayers
    /\ canvas' = add_layer(canvas, l)
    /\ UNCHANGED flat
    /\ CanvasFrame

\* the public background field is assigned
SetBackground(p) ==
    /\ flat = None
    /\ canvas' = [canvas EXCEPT !.background = p]
    /\ UNCHANGED flat
    /\ CanvasFrame

Flatten ==
    /\ flat = None
    /\ flat' = flatten(canvas, overflow_checks)
    /\ UNCHANGED canvas
    /\ CanvasFrame

NextCanvas ==
    \/ \E l \in CanvasLayerInputs : AddLayer(l)
    \/ \E p \in BackgroundInputs : SetBackground(p)
    \/ Flatten

SpecCanvas == InitCanvas /\ [][NextCanvas]_vars

(***************************************************************************)
(* Asking a Rect whether it contains a coordinate                          *)
(***************************************************************************)
RectFieldInputs == {0, 1, 2, USIZE_MAX - 1, USIZE_MAX}

InitRect ==
    /\ \E x \in RectFieldInputs, y \in RectFieldInputs,
          w \in RectFieldInputs, h \in RectFieldInputs : r_self = Rect(x, y, w, h)
    /\ r_point = None
    /\ r_out = None
    /\ overflow_checks = TRUE
    /\ BlendIdle /\ LayerIdle /\ MatrixIdle /\ CanvasIdle
    /\ ImageIdle /\ VecIdle /\ ChannelIdle /\ TextIdle

Contains(x, y) ==
    /\ r_point = None
    /\ r_point' = Coord(x, y)
    /\ r_out' = contains(r_self, x, y)
    /\ UNCHANGED <<r_self, blendVars, overflow_checks, layerVars, matrixVars,
                   canvasVars, imageVars, vecVars, channelVars,
                textVars>>

NextRect == \E x \in RectFieldInputs, y \in RectFieldInputs : Contains(x, y)

SpecRect == InitRect /\ [][NextRect]_vars

(***************************************************************************)
(* Constructing an Image and drawing on it                                 *)
(***************************************************************************)
TranslucentGreen == rgba(0, 255, 0, 128)

\* the closure handed to from_function: every coordinate its own pixel
GradientPixel ==
    [c \in (0..MaxDim) \X (0..MaxDim) |-> rgba(10 + 60 * c[1], 5 + 60 * c[2], 7, 255)]

\* the first n pixels of a buffer whose pixels all differ
PixelsOfLen(n) == [i \in 1..n |-> rgba(20 * i, 0, 255, 255)]

DimInputs == 0..MaxDim

\* a width whose product with 2 does not fit in usize
WideDim == 2 ^ (UsizeBits - 1)

\* source images, each from a constructor: one translucent pixel, four
\* opaque ones, no pixels with a height, no pixels with the largest width
SrcInputs ==
    {new_with_fill(TranslucentGreen, 1, 1, TRUE),
     SampleImage,
     new_with_fill(OpaqueRed, 0, 2, TRUE),
     new_with_fill(OpaqueRed, USIZE_MAX, 0, TRUE)}

OffsetInputs == 0..(MaxDim + 1)

ConstructorOps == {"new_with_fill", "from_pixels", "from_function", "flatten"}

IsImage(v) == v # Panic /\ v # ZeroWidth /\ v # IncorrectWidth

InitImage ==
    /\ ImageIdle
    /\ overflow_checks \in BOOLEAN
    /\ BlendIdle /\ LayerIdle /\ MatrixIdle /\ CanvasIdle
    /\ RectIdle /\ VecIdle /\ ChannelIdle /\ TextIdle

ImageFrame ==
    UNCHANGED <<blendVars, overflow_checks, layerVars, matrixVars, canvasVars,
                rectVars, vecVars, channelVars,
                textVars>>

NewWithFill(fill, width, height) ==
    /\ im_call = None
    /\ im' = new_with_fill(fill, width, height, overflow_checks)
    /\ im_call' = [op |-> "new_with_fill", width |-> width, height |-> height]
    /\ UNCHANGED <<im_src, im_ret>>
    /\ ImageFrame

FromPixels(pixels, width) ==
    /\ im_call = None
    /\ im' = from_pixels(pixels, width)
    /\ im_call' = [op |-> "from_pixels", pixels |-> pixels, width |-> width]
    /\ UNCHANGED <<im_src, im_ret>>
    /\ ImageFrame

FromFunction(width, height) ==
    /\ im_call = None
    /\ im' = from_function(width, height, GradientPixel)
    /\ im_call' = [op |-> "from_function", width |-> width, height |-> height]
    /\ UNCHANGED <<im_src, im_ret>>
    /\ ImageFrame

\* Canvas::flatten of a canvas without layers
FromFlatten(width, height) ==
    /\ im_call = None
    /\ im' = flatten([from_dimensions(width, height) EXCEPT !.background = OpaqueRed],
                     overflow_checks)
    /\ im_call' = [op |-> "flatten", width |-> width, height |-> height]
    /\ UNCHANGED <<im_src, im_ret>>
    /\ ImageFrame

\* the image and the return value a draw_subimage call leaves
Drawn(outcome) ==
    /\ im' = outcome.im
    /\ im_ret' = outcome.ret

\* the first draw_subimage on a fresh image
DrawSubimage(src, x, y, method) ==
    /\ im_call # None
    /\ im_call.op \in ConstructorOps
    /\ IsImage(im)
    /\ Drawn(draw_subimage(im, src, x, y, method, overflow_checks))
    /\ im_src' = src
    /\ im_call' = [op |-> "draw_subimage", x |-> x, y |-> y, method |-> method,
                   before |-> im, again |-> FALSE]
    /\ ImageFrame

\* the same draw_subimage call made a second time
DrawSubimageAgain ==
    /\ im_call # None
    /\ im_call.op = "draw_subimage"
    /\ ~im_call.again
    /\ im_ret # "Panic"
    /\ Drawn(draw_subimage(im, im_src, im_call.x, im_call.y, im_call.method,
                           overflow_checks))
    /\ im_call' = [im_call EXCEPT !.before = im, !.again = TRUE]
    /\ UNCHANGED im_src
    /\ ImageFrame

\* image.row(y): the slice returned is kept with the call
RowRead(y) ==
    /\ im_call # None
    /\ im_call.op \in ConstructorOps
    /\ IsImage(im)
    /\ im_call' = [op |-> "row", y |-> y, before |-> im, out |-> row(im, y)]
    /\ im_ret' = IF row(im, y).some THEN "Some" ELSE "None"
    /\ UNCHANGED <<im, im_src>>
    /\ ImageFrame

\* image.row_mut(y) and, when it is Some, a write to element k of the slice
RowMutWrite(y, k, pixel) ==
    /\ im_call # None
    /\ im_call.op \in ConstructorOps
    /\ IsImage(im)
    /\ \/ /\ row_mut_range(im, y) = None
          /\ im' = im
          /\ im_ret' = "None"
       \/ /\ row_mut_range(im, y) # None
          /\ k < row_mut_range(im, y).end - row_mut_range(im, y).start
          /\ im' = write_pixel(im, row_mut_range(im, y).start + k, pixel)
          /\ im_ret' = "Some"
    /\ im_call' = [op |-> "row_mut", y |-> y, before |-> im]
    /\ UNCHANGED im_src
    /\ ImageFrame

\* image.pixel_at_mut(x, y) and, when it is Some, a write through it
PixelAtMutWrite(x, y, pixel) ==
    /\ im_call # None
    /\ im_call.op \in ConstructorOps
    /\ IsImage(im)
    /\ \/ /\ pixel_at_mut_index(im, x, y) = NoIndex
          /\ im' = im
          /\ im_ret' = "None"
       \/ /\ pixel_at_mut_index(im, x, y) # NoIndex
          /\ im' = write_pixel(im, pixel_at_mut_index(im, x, y), pixel)
          /\ im_ret' = "Some"
    /\ im_call' = [op |-> "pixel_at_mut", x |-> x, y |-> y, before |-> im]
    /\ UNCHANGED im_src
    /\ ImageFrame

NextImage ==
    \/ \E w \in DimInputs \cup {WideDim}, h \in DimInputs : NewWithFill(OpaqueRed, w, h)
    \/ \E n \in 0..(2 * MaxDim), w \in DimInputs : FromPixels(PixelsOfLen(n), w)
    \/ \E w \in DimInputs, h \in DimInputs : FromFunction(w, h)
    \/ \E w \in DimInputs, h \in DimInputs : FromFlatten(w, h)
    \/ \E src \in SrcInputs, x \in OffsetInputs, y \in OffsetInputs,
          method \in {Replace, Over} : DrawSubimage(src, x, y, method)
    \/ DrawSubimageAgain
    \/ \E y \in DimInputs : RowRead(y)
    \/ \E y \in DimInputs, k \in DimInputs : RowMutWrite(y, k, OpaqueBlue)
    \/ \E x \in DimInputs, y \in DimInputs : PixelAtMutWrite(x, y, OpaqueBlue)

SpecImage == InitImage /\ [][NextImage]_vars

(***************************************************************************)
(* Casting channel buffers                                                 *)
(***************************************************************************)
\* values that pass the validity check of each channel type
ValidChannelInputs ==
    [u8 |-> {0, 255}, u16 |-> {0, 65535}, f32 |-> {F32Half, F32One}]

\* values that fail it: only f32 has any
InvalidChannelInputs ==
    [u8 |-> {}, u16 |-> {}, f32 |-> {F32Two, F32Neg(F32Half), F32NaN}]

\* capacities a Vec of the given length can have
CapacityInputs(len) == {len, len + 1, len + 4}

\* the buffer with element `at` replaced (at = 0: nothing replaced)
WithInvalid(items, at, v) ==
    [i \in 1..Len(items) |-> IF i = at THEN v ELSE items[i]]

InitVec ==
    /\ \E channel \in ChannelTypes, len \in 0..MaxChannels :
         \E items \in [1..len -> ValidChannelInputs[channel]],
            capacity \in CapacityInputs(len) :
           \/ channel_vec = Vec(items, capacity, channel)
           \/ \E at \in 1..len, v \in InvalidChannelInputs[channel] :
                channel_vec = Vec(WithInvalid(items, at, v), capacity, channel)
    /\ cast_out = None
    /\ overflow_checks = TRUE
    /\ BlendIdle /\ LayerIdle /\ MatrixIdle /\ CanvasIdle
    /\ ImageIdle /\ RectIdle /\ ChannelIdle /\ TextIdle

TryPixelVecFromChannels ==
    /\ cast_out = None
    /\ cast_out' = try_pixel_vec_from_channels(channel_vec)
    /\ UNCHANGED <<channel_vec, blendVars, overflow_checks, layerVars, matrixVars,
                   canvasVars, imageVars, rectVars, channelVars,
                textVars>>

NextVec == TryPixelVecFromChannels

SpecVec == InitVec /\ [][NextVec]_vars

(***************************************************************************)
(* Converting and filtering single pixels of each channel type             *)
(***************************************************************************)
F32Four == F32FromInt(4)

\* channel values of each type: every 8-bit value, the 16-bit values at both
\* ends of the range and some in between, and floats of the valid range
ChannelInputs ==
    [u8 |-> 0..255,
     u16 |-> (0..255) \cup {1000, 32768} \cup (65280..65535),
     f32 |-> {F32Zero, F32Half, F32One}]

ChannelGreenInputs ==
    [u8 |-> {0, 254}, u16 |-> {0, 65534}, f32 |-> {F32Zero, F32One}]

ChannelAlphaInputs ==
    [u8 |-> {128, 255}, u16 |-> {32768, 65535}, f32 |-> {F32Half, F32One}]

MultiplierInputs == {F32Neg(F32One), F32Half, F32One, F32Two, F32Four}

InitChannel ==
    /\ \E channel \in ChannelTypes :
         \E r \in ChannelInputs[channel], g \in ChannelGreenInputs[channel],
            a \in ChannelAlphaInputs[channel] :
           ch_pixel = [channel |-> channel, pixel |-> rgba(r, g, r, a)]
    /\ ch_call = None
    /\ ch_out = None
    /\ overflow_checks = TRUE
    /\ BlendIdle /\ LayerIdle /\ MatrixIdle /\ CanvasIdle
    /\ ImageIdle /\ RectIdle /\ VecIdle /\ TextIdle

ChannelFrame ==
    UNCHANGED <<ch_pixel, blendVars, overflow_checks, layerVars, matrixVars,
                canvasVars, imageVars, rectVars, vecVars,
                textVars>>

\* BrightnessFilter { multiplier }.filter_pixel(pixel)
BrightnessFilterPixel(multiplier) ==
    /\ ch_call = None
    /\ ch_call' = [op |-> "filter_pixel", multiplier |-> multiplier]
    /\ ch_out' = brightness_filter_pixel(multiplier, ch_pixel.channel, ch_pixel.pixel)
    /\ ChannelFrame

\* pixel.as_different_channel::<U>()
AsDifferentChannel(target) ==
    /\ ch_call = None
    /\ ch_call' = [op |-> "as_different_channel", target |-> target]
    /\ ch_out' = as_different_channel(ch_pixel.channel, ch_pixel.pixel, target)
    /\ ChannelFrame

\* over_operator(pixel, background) for 8-bit pixels
OverOperator(background) ==
    /\ ch_call = None
    /\ ch_pixel.channel = "u8"
    /\ ch_call' = [op |-> "over_operator", background |-> background]
    /\ ch_out' = over_operator(ch_pixel.pixel, background)
    /\ ChannelFrame

NextChannel ==
    \/ \E multiplier \in MultiplierInputs : BrightnessFilterPixel(multiplier)
    \/ \E target \in ChannelTypes : AsDifferentChannel(target)
    \/ \E background \in {OpaqueBlue, rgba(10, 200, 30, 77)} : OverOperator(background)

SpecChannel == InitChannel /\ [][NextChannel]_vars

(***************************************************************************)
(* Laying out a text glyph by glyph                                        *)
(***************************************************************************)
Metrics(xmin, ymin, width, height, advance_width) ==
    [xmin |-> xmin, ymin |-> ymin, width |-> width, height |-> height,
     advance_width |-> advance_width]

LineMetrics(ascent, descent, new_line_size) ==
    [some |-> TRUE, ascent |-> ascent, descent |-> descent,
     new_line_size |-> new_line_size]

NoLineMetrics ==
    [some |-> FALSE, ascent |-> F32Zero, descent |-> F32Zero, new_line_size |-> F32Zero]

F32OneAndHalf == F32Div(F32FromInt(3), F32FromInt(2))

\* a font of two glyphs with different bearings and advances, a kerning
\* table that is not symmetric, and empty metrics for any other character
Font(horizontal_line_metrics, vertical_line_metrics) ==
    [metrics |-> [c \in {"a", "b", NewLine} |->
                     IF c = "a"
                     THEN Metrics(1, 0, 2, 2, F32Div(F32FromInt(5), F32FromInt(2)))
                     ELSE IF c = "b"
                     THEN Metrics(0, 0 - 1, 1, 3, F32FromInt(2))
                     ELSE Metrics(0, 0, 0, 0, F32Zero)],
     kern |-> [p \in {<<"a", "b">>, <<"b", "a">>} |->
                  IF p = <<"a", "b">> THEN F32Neg(F32One) ELSE F32FromInt(2)],
     horizontal_line_metrics |-> horizontal_line_metrics,
     vertical_line_metrics |-> vertical_line_metrics]

FontInputs ==
    {Font(LineMetrics(F32FromInt(3), F32Neg(F32One), F32FromInt(5)),
          LineMetrics(F32FromInt(2), F32Neg(F32One), F32FromInt(4))),
     Font(LineMetrics(F32FromInt(3), F32Neg(F32One), F32FromInt(5)), NoLineMetrics),
     Font(NoLineMetrics, LineMetrics(F32FromInt(2), F32Neg(F32One), F32FromInt(4)))}

LayoutInputs ==
    {TextLayout(direction, align, line_spacing, glyph_spacing, use_kern) :
        direction \in {"LeftToRight", "TopToBottom"},
        align \in {"Start", "End"},
        line_spacing \in {SpacingMode_Scale(F32One), SpacingMode_Constant(F32FromInt(4))},
        glyph_spacing \in {SpacingMode_Scale(F32OneAndHalf), SpacingMode_Constant(F32FromInt(3))},
        use_kern \in BOOLEAN}

TextsUpTo(n) == UNION {[1..k -> {"a", "b", NewLine}] : k \in 0..n}

InitText ==
    /\ text_settings \in {TextSettings(layout, text, font) :
                             layout \in LayoutInputs, text \in TextsUpTo(MaxText),
                             font \in FontInputs}
    /\ layout_iter = LayoutIter_new(text_settings)
    /\ emitted = <<>>
    /\ layout_ret = None
    /\ layout_calls = 0
    /\ TextLayerIdle
    /\ overflow_checks = TRUE
    /\ BlendIdle /\ LayerIdle /\ MatrixIdle /\ CanvasIdle
    /\ ImageIdle /\ RectIdle /\ VecIdle /\ ChannelIdle

\* an item as kept in emitted: with the row and the prev_data next used for
\* it and the prev_data it left
Emitted(item, used, left) ==
    [item |-> item, prev_data |-> used.prev_data, row |-> used.row,
     left |-> left.prev_data]

\* one call of LayoutIter::next
LayoutNext ==
    /\ layout_calls < Len(text_settings.text) + 2
    /\ layout_iter' = next(layout_iter, text_settings).self
    /\ layout_ret' = next(layout_iter, text_settings).item
    /\ emitted' = IF next(layout_iter, text_settings).item = EndOfSequence
                  THEN emitted
                  ELSE Append(emitted,
                              Emitted(next(layout_iter, text_settings).item,
                                      seek_char(layout_iter, text_settings).self,
                                      next(layout_iter, text_settings).self))
    /\ layout_calls' = layout_calls + 1
    /\ UNCHANGED <<text_settings, textLayerVars, blendVars, overflow_checks, layerVars,
                   matrixVars, canvasVars, imageVars, rectVars, vecVars, channelVars>>

NextText == LayoutNext

SpecText == InitText /\ [][NextText]_vars

(***************************************************************************)
(* Constructing a TextLayer and changing its settings                      *)
(***************************************************************************)
TextLayerTexts == {<<"a", "b">>, <<"b", NewLine, "a">>, <<NewLine>>}

\* settings handed to try_new
TryNewInputs ==
    {TextSettings(layout, text, font) :
        layout \in LayoutInputs, text \in TextLayerTexts, font \in FontInputs}

\* settings handed to set_settings: two that rasterize and two that fail
SetSettingsInputs ==
    {TextSettings(TextLayout(direction, "Start", SpacingMode_Scale(F32One),
                             SpacingMode_Scale(F32OneAndHalf), TRUE),
                  text,
                  Font(LineMetrics(F32FromInt(3), F32Neg(F32One), F32FromInt(5)),
                       NoLineMetrics)) :
        direction \in {"LeftToRight", "TopToBottom"},
        text \in {<<"a", "b">>, <<"b", NewLine, "a">>}}

InitTextLayer ==
    /\ TextIdle
    /\ overflow_checks = TRUE
    /\ BlendIdle /\ LayerIdle /\ MatrixIdle /\ CanvasIdle
    /\ ImageIdle /\ RectIdle /\ VecIdle /\ ChannelIdle

TextLayerFrame ==
    UNCHANGED <<layoutVars, blendVars, overflow_checks, layerVars, matrixVars,
                canvasVars, imageVars, rectVars, vecVars, channelVars>>

\* what try_new leaves: a layer only when it returned Ok
Constructed(settings, result) ==
    /\ tl' = IF result = MissingLineSpacing \/ result = Panic THEN None ELSE result
    /\ tl_ret' = [op |-> "try_new", settings |-> settings,
                  ret |-> IF result = MissingLineSpacing THEN "Err"
                          ELSE IF result = Panic THEN "Panic" ELSE "Ok"]

\* TextLayer::try_new(settings, x, y)
TryNew(settings) ==
    /\ tl = None
    /\ tl_ret = None
    /\ Constructed(settings, try_new(settings))
    /\ TextLayerFrame

\* what set_settings leaves
Resettled(settings, result) ==
    /\ tl' = result.self
    /\ tl_ret' = [op |-> "set_settings", settings |-> settings, ret |-> result.ret,
                  before |-> tl]

\* layer.set_settings(settings)
SetSettings(settings) ==
    /\ tl # None
    /\ Resettled(settings, set_settings(tl, settings))
    /\ TextLayerFrame

NextTextLayer ==
    \/ \E settings \in TryNewInputs : TryNew(settings)
    \/ \E settings \in SetSettingsInputs : SetSettings(settings)

SpecTextLayer == InitTextLayer /\ [][NextTextLayer]_vars

(***************************************************************************)
(* Properties of blending                                                  *)
(***************************************************************************)
OverDone == blend_method = Over

\* The Over formula in exact integer arithmetic, in units of 1/255: pixel a
\* is weighted by its own alpha, pixel b by b.a * (1 - a.a).  den is
\* newAlpha * 255^2 and num(c) / den the colour in channel units; out agrees
\* when every channel is within one unit of the exact value.
OverAgrees(a, b, out) ==
    LET den == 255 * a.a + b.a * (255 - a.a)
        num(ac, bc) == ac * a.a * 255 + bc * b.a * (255 - a.a)
        near(oc, ac, bc) ==
            /\ oc * den - num(ac, bc) <= den
            /\ num(ac, bc) - oc * den <= den
    IN IF den = 0 THEN out = DefaultPixel
       ELSE /\ IsPixel(out)
            /\ 255 * out.a - den <= 255
            /\ den - 255 * out.a <= 255
            /\ near(out.r, a.r, b.r)
            /\ near(out.g, a.g, b.g)
            /\ near(out.b, a.b, b.b)

\* C2: blending any pixel p with the fully transparent default pixel, on
\* either side, gives back p.
C2_TransparentIsIdentity ==
    OverDone =>
        /\ blend_in2 = DefaultPixel => blend_out = blend_in1
        /\ blend_in1 = DefaultPixel => blend_out = blend_in2

\* C3 as stated: Over.blend(background, foreground) weights the background
\* colour by the background's own alpha and the foreground by a2.
C3_BackgroundWeightedByOwnAlpha ==
    OverDone => OverAgrees(blend_in1, blend_in2, blend_out)

\* C3 amended: Over.blend(background, foreground) is the Over formula with
\* a = the foreground and b = the background: the foreground colour is
\* weighted by its own alpha, the background colour by
\* a2 = background.alpha * (1 - foreground.alpha).
C3_ForegroundWeightedByOwnAlpha ==
    OverDone => OverAgrees(blend_in2, blend_in1, blend_out)

C3_Witness ==
    /\ OverDone
    /\ blend_in1.a = 102 /\ blend_in2.a = 11
    /\ blend_in1.r = 255 /\ blend_in2.r = 0
    /\ IsPixel(blend_out) /\ blend_out.a > 102

\* C4: an opaque foreground replaces the background exactly, and an opaque
\* background makes the result opaque.
C4_OpaqueForegroundWins ==
    OverDone =>
        /\ blend_in2.a = MAX_PIXEL_VALUE => blend_out = blend_in2
        /\ blend_in1.a = MAX_PIXEL_VALUE =>
               IsPixel(blend_out) /\ blend_out.a = MAX_PIXEL_VALUE

C4_Witness ==
    /\ OverDone
    /\ blend_in1.a = MAX_PIXEL_VALUE /\ blend_in2.a = MAX_PIXEL_VALUE
    /\ blend_in1.r # blend_in2.r
    /\ blend_out = blend_in2

\* C5: two fully transparent inputs give the default pixel whatever their
\* colours; any other pair gives a pixel (no failed conversion) with
\* non-zero alpha and every channel within 0..MAX_PIXEL_VALUE.
C5_ZeroAlphaFallback ==
    OverDone =>
        IF blend_in1.a = 0 /\ blend_in2.a = 0
        THEN blend_out = DefaultPixel
        ELSE /\ IsPixel(blend_out)
             /\ blend_out.a # 0
             /\ \A c \in {blend_out.r, blend_out.g, blend_out.b, blend_out.a} :
                    c \in 0..MAX_PIXEL_VALUE

C5_Witness ==
    /\ OverDone
    /\ blend_in1.a = 0 /\ blend_in2.a = 0
    /\ blend_in1.r = 255 /\ blend_in2.r = 3
    /\ blend_out = DefaultPixel

(***************************************************************************)
(* Properties of the layer pipeline                                        *)
(***************************************************************************)
\* fn.transform(... f1.transform(coord)) for the first n filters
RECURSIVE ComposedCoord(_, _, _)
ComposedCoord(filters, n, coord) ==
    IF n = 0 THEN coord
    ELSE LET inner == ComposedCoord(filters, n - 1, coord)
         IN IF inner = Panic THEN Panic
            ELSE filter_transform(filters[n], inner.x, inner.y, overflow_checks)

\* fn.pixel(... f1.pixel(pixel)) for the first n filters
RECURSIVE ComposedPixel(_, _, _)
ComposedPixel(filters, n, pixel) ==
    IF n = 0 THEN pixel
    ELSE LET inner == ComposedPixel(filters, n - 1, pixel)
         IN IF inner = Panic THEN Panic ELSE filter_pixel(filters[n], inner)

\* what the layer holds at a coordinate inside its Rect
Content(self, x, y) ==
    IF self.kind = "Rectangle" THEN self.fill
    ELSE self.im.pixels[(y - self.y) * self.im.width + (x - self.x) + 1]

C8_TranslateNeverWraps ==
    (/\ query # None
     /\ Len(cur_layer.filters) = 1
     /\ cur_layer.filters[1].kind = "Translate") =>
        LET sx == query.x - cur_layer.filters[1].x
            sy == query.y - cur_layer.filters[1].y
        IN /\ sample # Panic
           /\ IsPixel(sample) <=>
                  (sx >= 0 /\ sy >= 0 /\ contains(get_rect(cur_layer), sx, sy))

(***************************************************************************)
(* Properties of MatrixTransform                                           *)
(***************************************************************************)
F32Negative(v) == v.s = 1 /\ v.m # 0

\* C9: on each axis filter_transform returns usize::MAX when the source
\* coordinate is negative (also between -1 and 0) and the integer part of the
\* source coordinate when it is not; no Rect contains a sentinel coordinate.
C9_NegativeSourceIsSentinel ==
    t_in # None =>
        LET src == matrix_source(mt, t_in.x, t_in.y)
            axis(v, out) ==
                IF F32Negative(v) THEN out = USIZE_MAX
                ELSE out = i32_to_usize_or_max(F32AsI32(v))
        IN /\ axis(src.x, t_out.x)
           /\ axis(src.y, t_out.y)
           /\ \A r \in RectInputs, c \in TransformCoords :
                  ~contains(r, USIZE_MAX, c) /\ ~contains(r, c, USIZE_MAX)

Identity2 == <<F32One, F32Zero, F32Zero, F32One>>

\* the 2 x 2 product a x b, row by column
MatMul2(a, b) ==
    <<F32Add(F32Mul(a[1], b[1]), F32Mul(a[2], b[3])),
      F32Add(F32Mul(a[1], b[2]), F32Mul(a[2], b[4])),
      F32Add(F32Mul(a[3], b[1]), F32Mul(a[4], b[3])),
      F32Add(F32Mul(a[3], b[2]), F32Mul(a[4], b[4]))>>

\* the matrix of the transformation a builder call asks for: where a point
\* of the layer goes (x to the right, y down, angles clockwise)
Requested(op) ==
    CASE op.op = "rotate" ->
             LET c == F32Cos(F32Neg(to_radians(op.angle)))
                 sn == F32Neg(F32Sin(F32Neg(to_radians(op.angle))))
             IN <<c, F32Neg(sn), sn, c>>
      [] op.op = "scale" -> <<op.factor, F32Zero, F32Zero, op.factor>>
      [] op.op = "scale_axis" -> <<op.scale_x, F32Zero, F32Zero, op.scale_y>>
      [] op.op = "shear_x" -> <<F32One, op.factor, F32Zero, F32One>>
      [] op.op = "shear_y" -> <<F32One, F32Zero, op.factor, F32One>>
      [] op.op = "apply_matrix" -> op.matrix

\* inv(op1) x ... x inv(opn), given the inverses in call order
RECURSIVE ProductOf(_, _)
ProductOf(inverses, n) ==
    IF n = 0 THEN Identity2
    ELSE MatMul2(ProductOf(inverses, n - 1), inverses[n])

IsInverseOf(p, q) == MatMul2(p, q) = Identity2 /\ MatMul2(q, p) = Identity2

\* the inverse of Requested(op); apply_matrix is handed the inverse itself
InverseRequested(op) ==
    CASE op.op = "rotate" ->
             LET c == F32Cos(F32Neg(to_radians(op.angle)))
                 sn == F32Neg(F32Sin(F32Neg(to_radians(op.angle))))
             IN <<c, sn, F32Neg(sn), c>>
      [] op.op = "scale" ->
             <<F32Div(F32One, op.factor), F32Zero, F32Zero, F32Div(F32One, op.factor)>>
      [] op.op = "scale_axis" ->
             <<F32Div(F32One, op.scale_x), F32Zero, F32Zero, F32Div(F32One, op.scale_y)>>
      [] op.op = "shear_x" -> <<F32One, F32Neg(op.factor), F32Zero, F32One>>
      [] op.op = "shear_y" -> <<F32One, F32Zero, F32Neg(op.factor), F32One>>
      [] op.op = "apply_matrix" -> op.matrix

\* C10: new stores the identity and every builder call multiplies the
\* stored matrix on the right by the inverse of the transformation asked
\* for, so the stored matrix is inv(op1) x inv(op2) x ... x inv(opn).
C10_StoredMatrixIsProductOfInverses ==
    /\ mt.matrix = ProductOf([i \in 1..Len(mt_ops) |-> InverseRequested(mt_ops[i])],
                             Len(mt_ops))
    /\ \A i \in 1..Len(mt_ops) :
           IsInverseOf(InverseRequested(mt_ops[i]), Requested(mt_ops[i]))

C10_Witness ==
    /\ Len(mt_ops) = 3
    /\ mt_ops[1].op = "shear_x"
    /\ mt_ops[2].op = "rotate"
    /\ mt_ops[3].op = "scale_axis"
    /\ mt.matrix # apply_matrix_premultiply(
                       apply_matrix_premultiply(
                           apply_matrix_premultiply(
                               MatrixTransform_new(F32Zero, F32Zero),
                               InverseRequested(mt_ops[1])),
                           InverseRequested(mt_ops[2])),
                       InverseRequested(mt_ops[3])).matrix

(***************************************************************************)
(* Properties of Canvas                                                    *)
(***************************************************************************)
Flattened == flat # None /\ flat # Panic

LayerPixel(i, x, y) == filtered_pixel_at(canvas.layers[i], x, y, overflow_checks)

\* the left fold of Over.blend over the first n layers, from the background
RECURSIVE FoldOver(_, _, _)
FoldOver(n, x, y) ==
    IF n = 0 THEN canvas.background
    ELSE IF LayerPixel(n, x, y) = None THEN FoldOver(n - 1, x, y)
    ELSE blend(Over, FoldOver(n - 1, x, y), LayerPixel(n, x, y))

\* C1: every pixel of flatten() is the left fold of Over.blend over the
\* layers in insertion order starting from the background; where the last
\* layer that yields a pixel yields an opaque one, that pixel is the output.
C1_FlattenIsLeftFold ==
    Flattened =>
        \A x \in 0..(canvas.width - 1), y \in 0..(canvas.height - 1) :
            /\ pixel_at(flat, x, y) = FoldOver(Len(canvas.layers), x, y)
            /\ \A j \in 1..Len(canvas.layers) :
                   (/\ IsPixel(LayerPixel(j, x, y))
                    /\ LayerPixel(j, x, y).a = MAX_PIXEL_VALUE
                    /\ \A k \in (j + 1)..Len(canvas.layers) :
                           LayerPixel(k, x, y) = None)
                   => pixel_at(flat, x, y) = LayerPixel(j, x, y)

C1_Witness ==
    /\ Flattened
    /\ canvas.width = 2 /\ canvas.height = 2
    /\ Len(canvas.layers) = 2
    /\ LayerPixel(1, 0, 0) = OpaqueRed
    /\ LayerPixel(2, 0, 0) = OpaqueBlue
    /\ pixel_at(flat, 0, 0) = OpaqueBlue
    /\ pixel_at(flat, 1, 0) = OpaqueRed

\* the canvas without its i-th layer
WithoutLayer(i) ==
    [canvas EXCEPT !.layers =
        [k \in 1..(Len(canvas.layers) - 1) |->
             IF k < i THEN canvas.layers[k] ELSE canvas.layers[k + 1]]]

\* C6: a layer that reports no pixel at a coordinate does not affect the
\* result there (the result is that of the canvas without the layer), and
\* where no layer reports a pixel the result is exactly the background.
C6_NoPixelPassesThrough ==
    Flattened =>
        \A x \in 0..(canvas.width - 1), y \in 0..(canvas.height - 1) :
            /\ \A i \in 1..Len(canvas.layers) :
                   LayerPixel(i, x, y) = None =>
                       pixel_at(flat, x, y) =
                           combined_pixel_at(WithoutLayer(i), x, y, overflow_checks)
            /\ (\A i \in 1..Len(canvas.layers) : LayerPixel(i, x, y) = None)
                   => pixel_at(flat, x, y) = canvas.background

C6_Witness ==
    /\ Flattened
    /\ canvas.width = 2 /\ canvas.height = 2
    /\ canvas.background = rgba(3, 0, 100, 11)
    /\ Len(canvas.layers) = 2
    /\ LayerPixel(1, 0, 1) = None
    /\ LayerPixel(2, 0, 1) = None
    /\ LayerPixel(1, 1, 1) # None
    /\ pixel_at(flat, 0, 1) = rgba(3, 0, 100, 11)

(***************************************************************************)
(* Properties of Rect                                                      *)
(***************************************************************************)
\* C17: contains(px, py) is true iff neither x + width nor y + height
\* overflows usize and x <= px < x + width and y <= py < y + height; the
\* call always returns a boolean.
C17_ContainsIffInRange ==
    r_point # None =>
        /\ r_out \in BOOLEAN
        /\ r_out <=>
               /\ r_self.x + r_self.width <= USIZE_MAX
               /\ r_self.y + r_self.height <= USIZE_MAX
               /\ r_self.x <= r_point.x /\ r_point.x < r_self.x + r_self.width
               /\ r_self.y <= r_point.y /\ r_point.y < r_self.y + r_self.height

\* a Rect whose x + width overflows is asked about its own corner
C17_Witness ==
    /\ r_self = Rect(USIZE_MAX, 1, 2, 2)
    /\ r_point = Coord(USIZE_MAX, 1)
    /\ r_out = FALSE

(***************************************************************************)
(* Properties of Image                                                     *)
(***************************************************************************)
\* C12: from_pixels(pixels, width) returns ZeroWidth when width is 0 and
\* pixels is not empty, IncorrectWidth when width > 0 does not divide the
\* length, and otherwise the image of the same pixels in order with the
\* given width and height = length / width (the empty image for width 0);
\* it never panics.
C12_FromPixelsResult ==
    (im_call # None /\ im_call.op = "from_pixels") =>
        LET pixels == im_call.pixels
            width == im_call.width
        IN /\ im # Panic
           /\ IF width = 0 /\ Len(pixels) # 0 THEN im = ZeroWidth
              ELSE IF width > 0 /\ Len(pixels) % width # 0 THEN im = IncorrectWidth
              ELSE im = Image(pixels, width,
                              IF width = 0 THEN 0 ELSE Len(pixels) \div width)

C12_Witness ==
    /\ im_call # None
    /\ im_call.op = "from_pixels"
    /\ Len(im_call.pixels) = 3
    /\ im_call.width = 2
    /\ im = IncorrectWidth

\* C13: every Image has len(pixels) = width * height, and width = 0 implies
\* height = 0 and an empty buffer.
C13_ImageInvariant ==
    IsImage(im) =>
        /\ Len(im.pixels) = im.width * im.height
        /\ im.width = 0 => (im.height = 0 /\ im.pixels = <<>>)

FirstDraw == im_call # None /\ im_call.op = "draw_subimage" /\ ~im_call.again

\* whether (dx, dy) lies in the part of the destination the source covers
InDrawnRegion(dest, src, x, y, dx, dy) ==
    /\ x <= dx /\ dx < x + src.width /\ dx < dest.width
    /\ y <= dy /\ dy < y + src.height /\ dy < dest.height

\* C14: draw_subimage with the offset inside the destination returns, turns
\* every destination pixel the source covers into blend(old, source pixel),
\* and leaves the other pixels, the width and the height unchanged.
C14_DrawSubimageClips ==
    (/\ FirstDraw
     /\ im_call.x < im_call.before.width
     /\ im_call.y < im_call.before.height) =>
        LET dest == im_call.before
        IN /\ im_ret = "Some"
           /\ im.width = dest.width /\ im.height = dest.height
           /\ Len(im.pixels) = Len(dest.pixels)
           /\ \A dx \in 0..(dest.width - 1), dy \in 0..(dest.height - 1) :
                  pixel_at(im, dx, dy) =
                      IF InDrawnRegion(dest, im_src, im_call.x, im_call.y, dx, dy)
                      THEN blend(im_call.method, pixel_at(dest, dx, dy),
                                 pixel_at(im_src, dx - im_call.x, dy - im_call.y))
                      ELSE pixel_at(dest, dx, dy)

\* C15: draw_subimage with the offset outside the destination returns
\* without a panic and leaves the destination as it was.
C15_OutOfBoundsOffsetIsNoOp ==
    (/\ FirstDraw
     /\ \/ im_call.x >= im_call.before.width
        \/ im_call.y >= im_call.before.height) =>
        /\ im_ret \in {"Some", "None"}
        /\ im = im_call.before

\* C16: a draw_subimage with Replace made a second time returns again and
\* leaves the image the first call produced.
C16_ReplaceIsIdempotent ==
    (/\ im_call # None
     /\ im_call.op = "draw_subimage"
     /\ im_call.again
     /\ im_call.method = Replace) =>
        /\ im_ret # "Panic"
        /\ im = im_call.before

\* the translucent pixel drawn twice with Replace over the last pixel of a
\* 2 x 2 image
C16_Witness ==
    /\ im_call # None
    /\ im_call.op = "draw_subimage"
    /\ im_call.again
    /\ im_call.method = Replace
    /\ im_call.x = 1 /\ im_call.y = 1
    /\ im_src = new_with_fill(TranslucentGreen, 1, 1, TRUE)
    /\ im_ret = "Some"
    /\ im = Image(<<OpaqueRed, OpaqueRed, OpaqueRed, TranslucentGreen>>, 2, 2)


(***************************************************************************)
(* Properties of the channel buffer cast                                   *)
(***************************************************************************)
HasInvalidChannel ==
    \E i \in 1..Len(channel_vec.items) :
        ~is_valid_channel_value(channel_vec.channel, channel_vec.items[i])

\* C18: try_pixel_vec_from_channels fails exactly when some channel value is
\* invalid, or the length is not a multiple of 4, or the capacity is not a
\* multiple of 4, and every failure carries the original buffer with the
\* same contents, length and capacity.
C18_CastFailsExactlyWhen ==
    cast_out # None =>
        /\ ~cast_out.ok <=> \/ HasInvalidChannel
                            \/ Len(channel_vec.items) % 4 # 0
                            \/ channel_vec.capacity % 4 # 0
        /\ ~cast_out.ok =>
              /\ cast_out.original_vec.items = channel_vec.items
              /\ Len(cast_out.original_vec.items) = Len(channel_vec.items)
              /\ cast_out.original_vec.capacity = channel_vec.capacity

\* a whole number of valid channels fails on its capacity alone
C18_Witness ==
    /\ cast_out # None
    /\ ~cast_out.ok
    /\ cast_out.kind = "IncorrectCapacity"
    /\ Len(channel_vec.items) = 4
    /\ cast_out.original_vec = channel_vec

\* the channels of a pixel buffer, in order
ChannelsOf(pixels) ==
    [i \in 1..(4 * Len(pixels)) |->
        CASE i % 4 = 1 -> pixels[(i + 3) \div 4].r
          [] i % 4 = 2 -> pixels[(i + 3) \div 4].g
          [] i % 4 = 3 -> pixels[(i + 3) \div 4].b
          [] OTHER -> pixels[(i + 3) \div 4].a]

\* C19: on success the pixel buffer has a quarter of the length and of the
\* capacity, pixel i is channels 4i..4i+3 as (r, g, b, a), and the channels
\* of the pixels in order are the input.
C19_CastKeepsChannels ==
    (cast_out # None /\ cast_out.ok) =>
        /\ 4 * Len(cast_out.vec.items) = Len(channel_vec.items)
        /\ 4 * cast_out.vec.capacity = channel_vec.capacity
        /\ \A i \in 0..(Len(cast_out.vec.items) - 1) :
              /\ cast_out.vec.items[i + 1].r = channel_vec.items[4 * i + 1]
              /\ cast_out.vec.items[i + 1].g = channel_vec.items[4 * i + 2]
              /\ cast_out.vec.items[i + 1].b = channel_vec.items[4 * i + 3]
              /\ cast_out.vec.items[i + 1].a = channel_vec.items[4 * i + 4]
        /\ ChannelsOf(cast_out.vec.items) = channel_vec.items

\* two different pixels and spare capacity come out of eight channels
C19_Witness ==
    /\ cast_out # None
    /\ cast_out.ok
    /\ Len(cast_out.vec.items) = 2
    /\ cast_out.vec.items[1] # cast_out.vec.items[2]
    /\ cast_out.vec.capacity = 3
    /\ channel_vec.capacity = 12


(***************************************************************************)
(* Properties of single-pixel filtering and conversion                     *)
(***************************************************************************)
\* the colour channel v multiplied and clamped to the range of its own type
ClampedToOwnRange(channel, v, multiplier) ==
    channel_from_f32(channel,
        bounded_multiply(MIN_PIXEL_VALUE_f32(channel), MAX_PIXEL_VALUE_f32(channel),
                         channel_into_f32(channel, v), multiplier))

\* C11: BrightnessFilter.filter_pixel never fails, leaves alpha unchanged and
\* gives each of r, g, b multiplied by the multiplier and clamped to
\* [MIN_PIXEL_VALUE, MAX_PIXEL_VALUE] of the pixel's own channel type, for
\* 8-bit, 16-bit and float pixels and every multiplier.
C11_BrightnessClampsToOwnRange ==
    (ch_call # None /\ ch_call.op = "filter_pixel") =>
        /\ ch_out # Panic
        /\ ch_out.pixel.a = ch_pixel.pixel.a
        /\ ch_out.pixel.r =
              ClampedToOwnRange(ch_pixel.channel, ch_pixel.pixel.r, ch_call.multiplier)
        /\ ch_out.pixel.g =
              ClampedToOwnRange(ch_pixel.channel, ch_pixel.pixel.g, ch_call.multiplier)
        /\ ch_out.pixel.b =
              ClampedToOwnRange(ch_pixel.channel, ch_pixel.pixel.b, ch_call.multiplier)

\* f32::round of a non-negative float, as an integer
F32RoundToInt(x) ==
    IF x.m = 0 \/ x.s = 1 THEN 0
    ELSE IF x.e >= 0 THEN x.m * 2^x.e
    ELSE IF x.e < 0 - 24 THEN 0
    ELSE (x.m + 2^((0 - x.e) - 1)) \div 2^(0 - x.e)

\* over_operator's float results for 8-bit pixels, before the conversion back
OverFloat(pixel1, pixel2) ==
    LET float_pixel1 == as_float_pixel(pixel1)
        float_pixel2 == as_float_pixel(pixel2)
        second_alpha_component == second_alpha(float_pixel1, float_pixel2)
        new_alpha == F32Add(float_pixel1.a, second_alpha_component)
        new_color(c1, c2) ==
            F32Div(F32Add(F32Mul(c1, float_pixel1.a),
                          F32Mul(c2, second_alpha_component)), new_alpha)
    IN [r |-> new_color(float_pixel1.r, float_pixel2.r),
        g |-> new_color(float_pixel1.g, float_pixel2.g),
        b |-> new_color(float_pixel1.b, float_pixel2.b),
        a |-> new_alpha]

RoundedPixel(target, float_pixel) ==
    rgba(F32RoundToInt(F32Mul(MAX_PIXEL_VALUE_f32(target), float_pixel.r)),
         F32RoundToInt(F32Mul(MAX_PIXEL_VALUE_f32(target), float_pixel.g)),
         F32RoundToInt(F32Mul(MAX_PIXEL_VALUE_f32(target), float_pixel.b)),
         F32RoundToInt(F32Mul(MAX_PIXEL_VALUE_f32(target), float_pixel.a)))

\* C20: a float-normalised channel value converted to an integer channel
\* type, by as_different_channel and by the Over operator, is
\* round(float_value * target_max), the nearest integer, not the truncation.
C20_ConversionRounds ==
    /\ (ch_call # None /\ ch_call.op = "as_different_channel"
           /\ ch_call.target # "f32") =>
          /\ ch_out # Panic
          /\ ch_out.pixel =
                RoundedPixel(ch_call.target,
                             as_float_pixel_of(ch_pixel.channel, ch_pixel.pixel))
    /\ (ch_call # None /\ ch_call.op = "over_operator") =>
          /\ ch_out # Panic
          /\ ch_out = RoundedPixel("u8", OverFloat(ch_pixel.pixel, ch_call.background))


\* C21: a pixel of channel type T converted to the float-normalised pixel
\* and back to the same type T (as_different_channel::<T>) is the pixel
\* itself, for every channel value of the type's range.
C21_RoundTripIsIdentity ==
    (ch_call # None /\ ch_call.op = "as_different_channel"
        /\ ch_call.target = ch_pixel.channel) =>
        /\ ch_out # Panic
        /\ ch_out = ch_pixel

\* a 16-bit pixel with channels that are no multiple of anything special
C21_Witness ==
    /\ ch_call # None
    /\ ch_call.op = "as_different_channel"
    /\ ch_call.target = "u16"
    /\ ch_pixel.channel = "u16"
    /\ ch_pixel.pixel = rgba(1000, 65534, 1000, 32768)
    /\ ch_out = ch_pixel


\* the pixels of row y of an image: indices [y*width, (y+1)*width)
RowPixels(image, y) ==
    [i \in 1..image.width |-> image.pixels[y * image.width + i]]

\* C22: for every y < height, the last row included, row(y) and row_mut(y)
\* are the view of the width pixels at [y*width, (y+1)*width); both are None
\* exactly when y >= height; a write through row_mut(y) changes only row y.
C22_RowViews ==
    /\ (im_call # None /\ im_call.op = "row") =>
          IF im_call.y < im.height
          THEN /\ im_call.out.some
               /\ im_call.out.items = RowPixels(im, im_call.y)
          ELSE ~im_call.out.some
    /\ (im_call # None /\ im_call.op = "row_mut") =>
          /\ im_ret = "None" <=> im_call.y >= im_call.before.height
          /\ im.width = im_call.before.width
          /\ im.height = im_call.before.height
          /\ Len(im.pixels) = Len(im_call.before.pixels)
          /\ \A i \in 1..Len(im.pixels) :
                (i <= im_call.y * im.width \/ i > (im_call.y + 1) * im.width)
                    => im.pixels[i] = im_call.before.pixels[i]


(***************************************************************************)
(* Properties of the text layout                                           *)
(***************************************************************************)
\* the number of newline characters before position i of the text
NewlinesBefore(text, i) == Cardinality({j \in 1..(i - 1) : text[j] = NewLine})

NonNewlineCount(text) == Cardinality({i \in 1..Len(text) : text[i] # NewLine})

\* the first n items a fresh iterator over the settings returns
RECURSIVE FirstItems(_, _, _)
FirstItems(self, settings, n) ==
    IF n = 0 THEN <<>>
    ELSE <<next(self, settings).item>>
         \o FirstItems(next(self, settings).self, settings, n - 1)

LayoutEnded == layout_ret = EndOfSequence

\* C23: LayoutIter yields one item per non-newline character of the text and
\* none for a newline, the lines in text order, so that the placements are
\* as many as the non-newline characters; an iterator built from equal
\* settings yields the same sequence.
C23_OneItemPerCharacter ==
    /\ Len(emitted) <= NonNewlineCount(text_settings.text)
    /\ \A k \in 1..Len(emitted) : emitted[k].item.ok => emitted[k].item.glyph # NewLine
    /\ \A k \in 1..(Len(emitted) - 1) : emitted[k].row <= emitted[k + 1].row
    /\ LayoutEnded =>
          /\ Len(emitted) = NonNewlineCount(text_settings.text)
          /\ \A line \in 0..Len(text_settings.text) :
                Cardinality({k \in 1..Len(emitted) : emitted[k].row = line})
                = Cardinality({i \in 1..Len(text_settings.text) :
                                  /\ text_settings.text[i] # NewLine
                                  /\ NewlinesBefore(text_settings.text, i) = line})
          /\ (\A k \in 1..Len(emitted) : emitted[k].item.ok) =>
                \A line \in 0..Len(text_settings.text), c \in {"a", "b"} :
                   Cardinality({k \in 1..Len(emitted) :
                                   emitted[k].row = line /\ emitted[k].item.glyph = c})
                   = Cardinality({i \in 1..Len(text_settings.text) :
                                     /\ text_settings.text[i] = c
                                     /\ NewlinesBefore(text_settings.text, i) = line})
    /\ [k \in 1..Len(emitted) |-> emitted[k].item]
          = FirstItems(LayoutIter_new(text_settings), text_settings, Len(emitted))

\* two empty lines before the only glyph, laid out to the end
C23_Witness ==
    /\ LayoutEnded
    /\ text_settings.text = <<NewLine, NewLine, "b">>
    /\ Len(emitted) = 1
    /\ emitted[1].row = 2
    /\ emitted[1].item.ok
    /\ emitted[1].item.glyph = "b"


\* line spacing in Scale mode with a font that lacks the line metrics of the
\* layout direction
LacksNeededLineMetrics(settings) ==
    /\ settings.layout.line_spacing.mode = "Scale"
    /\ IF settings.layout.direction = "LeftToRight"
       THEN ~settings.font.horizontal_line_metrics.some
       ELSE ~settings.font.vertical_line_metrics.some

\* every item a LayoutIter over the settings yields
AllItems(settings) ==
    FirstItems(LayoutIter_new(settings), settings, NonNewlineCount(settings.text))

RECURSIVE ConcatLines(_)
ConcatLines(lines) ==
    IF lines = <<>> THEN <<>> ELSE Head(lines) \o ConcatLines(Tail(lines))

\* the characters in the order the claim gives: line by line, a line's
\* characters first-to-last for Start and last-to-first for End
EmissionOrder(settings) ==
    ConcatLines([i \in 1..Len(split(settings.text)) |->
                IF settings.layout.align = "Start" THEN split(settings.text)[i]
                ELSE Reverse(split(settings.text)[i])])

\* the advance of a glyph as an isize: the scaled ceiling of its advance
\* width or the constant spacing, positive for Start and negative for End
SignedAdvance(settings, glyph) ==
    F32AsIsize(F32Mul(IF settings.layout.glyph_spacing.mode = "Scale"
                      THEN F32Mul(settings.layout.glyph_spacing.v,
                                  F32Ceil(settings.font.metrics[glyph].advance_width))
                      ELSE settings.layout.glyph_spacing.v,
                      IF settings.layout.align = "Start" THEN F32One ELSE F32Neg(F32One)))

\* the kerning adjustment between the glyph emitted before and the next one:
\* the font's kerning of (previous, next) for Start, minus its kerning of
\* (next, previous) for End, scaled with the glyph spacing
KerningAdjustment(settings, prev_char, next_char) ==
    IF ~settings.layout.use_kern THEN 0
    ELSE F32AsIsize(F32Mul(
             IF settings.layout.align = "Start"
             THEN horizontal_kern_or_zero(settings.font, prev_char, next_char)
             ELSE F32Neg(horizontal_kern_or_zero(settings.font, next_char, prev_char)),
             IF settings.layout.glyph_spacing.mode = "Scale"
             THEN settings.layout.glyph_spacing.v ELSE F32One))

\* the pen origin of the k-th emitted glyph: 0 at the start of a line, else
\* the origin the previous glyph left plus the kerning adjustment
PenOrigin(k) ==
    IF emitted[k].prev_data = None THEN 0
    ELSE emitted[k].prev_data.origin
         + KerningAdjustment(text_settings, emitted[k].prev_data.char,
                             emitted[k].item.glyph)

\* C25: in a left-to-right layout the characters of each line are emitted
\* first-to-last for alignment Start and last-to-first for End; each glyph
\* moves the pen origin by its advance (or the constant spacing), forwards
\* for Start and backwards for End; the emitted x is the pen origin plus
\* xmin for Start and the position after the negative advance for End; the
\* kerning applied is that of (previous, next) for Start and minus that of
\* (next, previous) for End.
C25_AlignmentAdvance ==
    text_settings.layout.direction = "LeftToRight" =>
        \A k \in 1..Len(emitted) :
            emitted[k].item.ok =>
                /\ emitted[k].item.glyph = EmissionOrder(text_settings)[k]
                /\ emitted[k].left.origin
                   = PenOrigin(k) + SignedAdvance(text_settings, emitted[k].item.glyph)
                /\ emitted[k].item.x
                   = IF text_settings.layout.align = "Start"
                     THEN PenOrigin(k) + text_settings.font.metrics[emitted[k].item.glyph].xmin
                     ELSE emitted[k].left.origin


\* the x offset of the column of line k in a top-to-bottom layout
ColumnOffset(settings, k) ==
    IF settings.layout.line_spacing.mode = "Scale"
    THEN F32AsIsize(F32Mul(F32Mul(settings.font.vertical_line_metrics.new_line_size,
                                  F32FromInt(k)),
                           settings.layout.line_spacing.v))
    ELSE F32AsIsize(F32Mul(F32FromInt(k), settings.layout.line_spacing.v))

\* C26: in a top-to-bottom layout, for both alignments, every glyph of line
\* k is emitted with x = column offset of k + the glyph's xmin, whatever its
\* position inside the line; the first glyph of a column has y = 0 and the
\* baseline of each later glyph is the origin the glyph before it left.
C26_ColumnPerLine ==
    text_settings.layout.direction = "TopToBottom" =>
        \A k \in 1..Len(emitted) :
            emitted[k].item.ok =>
                /\ emitted[k].item.x
                   = ColumnOffset(text_settings, emitted[k].row)
                     + text_settings.font.metrics[emitted[k].item.glyph].xmin
                /\ emitted[k].item.y
                   = (IF emitted[k].prev_data = None
                      THEN 0
                      ELSE (emitted[k].prev_data.origin
                            - text_settings.font.metrics[emitted[k].item.glyph].ymin)
                           - text_settings.font.metrics[emitted[k].item.glyph].height)


\* the k-th item is the k-th character of the emission order, so no
\* character is emitted twice
EmittedAtMostOnce ==
    /\ Len(emitted) <= Len(EmissionOrder(text_settings))
    /\ \A k \in 1..Len(emitted) :
          emitted[k].item.ok => emitted[k].item.glyph = EmissionOrder(text_settings)[k]

\* a call of next made after end-of-sequence was returned
NextAfterEnd ==
    LayoutEnded =>
        /\ layout_ret' = EndOfSequence
        /\ layout_iter' = layout_iter
        /\ emitted' = emitted

\* C27: LayoutIter is forward-only and non-restartable: each character is
\* emitted at most once, and once next has returned end-of-sequence every
\* later call returns end-of-sequence and leaves the iterator (row,
\* prev_data, the remaining lines and characters) unchanged.
C27_ForwardOnly == [](EmittedAtMostOnce) /\ [][NextAfterEnd]_vars

\* two calls were made after the last glyph of a text of two lines
C27_Witness ==
    /\ LayoutEnded
    /\ layout_calls = Len(emitted) + 2
    /\ Len(emitted) >= 2
    /\ layout_iter.row >= 1
    /\ layout_iter.prev_data # None


\* the position in the text of its k-th character that is not a newline
GlyphPosition(text, k) ==
    CHOOSE i \in 1..Len(text) :
        /\ text[i] # NewLine
        /\ Cardinality({j \in 1..i : text[j] # NewLine}) = k

\* the k-th item is the first one of its line
FirstOfLine(k) == k = 1 \/ emitted[k - 1].row # emitted[k].row

\* C28: the row used for a glyph is the number of newline characters before
\* it in the text, empty lines included, and prev_data is cleared at every
\* line break: the first glyph of a line has no previous glyph, and in a
\* left-to-right layout its pen origin is 0 with no kerning applied; a later
\* glyph of the line has the glyph before it as its previous glyph.
C28_RowAndLineBreaks ==
    /\ layout_iter.row <= Len(text_settings.text) - NonNewlineCount(text_settings.text)
    /\ LayoutEnded =>
          layout_iter.row = Len(text_settings.text) - NonNewlineCount(text_settings.text)
    /\ \A k \in 1..Len(emitted) :
          /\ emitted[k].row
             = NewlinesBefore(text_settings.text, GlyphPosition(text_settings.text, k))
          /\ FirstOfLine(k) =>
                /\ emitted[k].prev_data = None
                /\ (emitted[k].item.ok /\ text_settings.layout.direction = "LeftToRight") =>
                      emitted[k].item.x
                      = text_settings.font.metrics[emitted[k].item.glyph].xmin
                        + (IF text_settings.layout.align = "Start" THEN 0
                           ELSE SignedAdvance(text_settings, emitted[k].item.glyph))
          /\ (~FirstOfLine(k) /\ emitted[k].item.ok) =>
                /\ emitted[k].prev_data # None
                /\ emitted[k].prev_data.char = emitted[k - 1].item.glyph

\* with kerning on, the first glyph of the second line starts at pen origin 0
\* although the font kerns it against the last glyph of the first line
C28_Witness ==
    /\ text_settings.text = <<"b", NewLine, "a">>
    /\ text_settings.layout.direction = "LeftToRight"
    /\ text_settings.layout.align = "Start"
    /\ text_settings.layout.use_kern
    /\ Len(emitted) = 2
    /\ emitted[2].item.ok
    /\ emitted[2].row = 1
    /\ emitted[2].prev_data = None
    /\ emitted[2].item.x = 1


\* C29: after any sequence of try_new and set_settings calls that returned,
\* with Ok or with the layout error, the rasterized image of the layer is
\* the rasterization of its settings, and a set_settings call that failed
\* with the layout error left the settings and the rasterized image as they
\* were.
C29_RasterMatchesSettings ==
    (tl # None /\ tl_ret.ret # "Panic") =>
        /\ tl.rasterized = raster_from_settings(tl.settings)
        /\ (tl_ret.op = "set_settings" /\ tl_ret.ret = "Err") => tl = tl_ret.before


\* C30: flatten never panics and returns an Image with the width and the
\* height of the canvas, for every canvas width and height, zero included;
\* the canvas is as before the call, so that a second call returns an equal
\* image.
C30_FlattenKeepsDimensions ==
    flat # None =>
        /\ flat # Panic
        /\ flat.width = canvas.width
        /\ flat.height = canvas.height
        /\ flat = flatten(canvas, overflow_checks)

====
